---------------------------- MODULE Spec2Model ----------------------------
(***************************************************************************)
(* A model of three parts of the server:                                   *)
(*   - the HTTP/2 connection I/O channel  (modules/http2/h2_conn_io.c)     *)
(*   - protocol sniffing and the RFC 7540 security check                   *)
(*                                        (modules/http2/h2_h2.c)          *)
(*   - reclaiming child processes         (server/mpm_unix.c)              *)
(* Each part has its own specification over the shared variables:          *)
(* SpecIO, SpecRead, SpecConn, SpecReclaim.                                *)
(***************************************************************************)
EXTENDS Integers, Sequences, FiniteSets, TLC

VARIABLES
    io,        \* the h2_conn_io struct (fields as in the source)
    now,       \* apr_time_now(), microseconds
    given,     \* number of bytes handed to h2_conn_io_write so far
    sent,      \* bytes the transport accepted, in order (run list)
    mark,      \* how many bytes the transport had accepted at the last
               \* idle reset (0 before the first)
    ev,        \* write_size tunings done by the last call, in order
    passes,    \* ap_pass_brigade calls made by the last call, in order
    rstatus,   \* status returned by the last call
    lastcall,  \* which entry point ran last
    nwrites,   \* number of write calls so far
    nfail,     \* number of failed transport passes so far
    nreset,    \* number of idle resets so far
    ngrow,     \* number of growths of write_size so far
    \* ---- h2_conn_io_read
    input,     \* io->input: the staged buckets, in order
    rpc,       \* where the read call is: "idle", "loop1", "fetch", "loop2"
    rblock,    \* the call's block argument
    rl,        \* locals of h2_conn_io_bucket_read: status, done, readlen
    rret,      \* status the last read call returned
    delivered, \* number of bytes the transport has put into io->input
    ctotal,    \* number of bytes the consumer has taken
    hand,      \* the last on_read_cb call: the span and the answer
    last,      \* what the last step of the read call did
    cbfail,    \* the consumer has answered with an error
    sbstatus,  \* the scoreboard status last set
    nreq,      \* transport requests made by the current call
    centry,    \* what ctotal was when the current call was entered
    tstat,     \* what ap_get_brigade answered last
    \* ---- reclaiming child processes (mpm_unix.c)
    sb,        \* scoreboard: slot -> pid, 0 for a slot not in use
    proc,      \* the children: pid -> "running", "zombie" (exited, not
               \* waited for yet) or "gone" (waited for, or no child)
    extras,    \* the list of extra processes, head first
    debug,     \* the build makes AP_DEBUG_ASSERT evaluate its argument
    rc,        \* locals of ap_reclaim_child_processes and where it is
    plog,      \* what the last poll of the reclaim loop did
    known0,    \* the pids known (scoreboard, extras) when reclaim started
    uret,      \* ap_unregister_extra_mpm_process, when it was the last
               \* call made: the pid given and what it returned
    rlv,       \* what ap_relieve_child_processes did, when it was the
               \* last call made
    pod,       \* the pipe of death: whether it is open, the bytes in it,
               \* the bytes written to it and the checks that said die
    pcall,     \* the last call on the pipe of death and what it did
    cstat,     \* the last call of ap_process_child_status: what it was
               \* given, what it returned and what it logged
    \* ---- taking over a connection (h2_h2.c)
    opt,       \* what h2_h2_init set: the optional functions retrieved
    conn,      \* the connection: what mod_ssl and the configuration say of
               \* it, the protocol its context notes
    pres,      \* what h2_h2_process_conn did and returned
    gate       \* the last answer of h2_is_security_compliant

iovars == <<io, now, given, sent, mark, ev, passes, rstatus, lastcall,
            nwrites, nfail, nreset, ngrow>>

rdvars == <<input, rpc, rblock, rl, rret, delivered, ctotal, hand, last,
            cbfail, sbstatus, nreq, centry, tstat>>

rcvars == <<sb, proc, extras, debug, rc, plog, known0, uret, rlv,
            pod, pcall, cstat>>

cnvars == <<opt, conn, pres, gate>>

vars == <<iovars, rdvars, rcvars, cnvars>>

(***************************************************************************)
(* Constants of h2_conn_io.c                                               *)
(***************************************************************************)
WRITE_BUFFER_SIZE == 65536
WRITE_SIZE_INITIAL == 1300
WRITE_SIZE_MAX == 16384
WRITE_SIZE_IDLE_USEC == 1000000
WRITE_SIZE_THRESHOLD == 1048576
\* APR_BUCKET_BUFF_SIZE: the heap bucket apr_brigade_write allocates
APR_BUCKET_BUFF_SIZE == 8000

APR_SUCCESS == "APR_SUCCESS"
APR_EAGAIN == "APR_EAGAIN"
APR_EOF == "APR_EOF"
APR_ECONNRESET == "APR_ECONNRESET"

(***************************************************************************)
(* Bounds of the model                                                     *)
(***************************************************************************)
MaxWrites == 3        \* write calls in one run
MaxFails == 1         \* failed transport passes in one run
MaxNow == 3000000     \* the clock stops here
StartTime == 1000000  \* the clock's value when the channel is created

\* lengths a write call is given
WriteLens == {0, 2000, 16 * WRITE_BUFFER_SIZE}

(***************************************************************************)
(* Byte strings.  A byte string is a sequence of runs <<lo, len>>: the     *)
(* len bytes of the write stream at offsets lo .. lo+len-1.  Every byte    *)
(* given to write is a different byte, so two strings are equal iff their  *)
(* normal forms are.  lo = ZeroByte is a run of the zero bytes the buffer  *)
(* is allocated with.                                                      *)
(***************************************************************************)
ZeroByte == -1

Shift(lo, n) == IF lo = ZeroByte THEN ZeroByte ELSE lo + n

Joins(a, b) == \/ a[1] = ZeroByte /\ b[1] = ZeroByte
               \/ a[1] >= 0 /\ b[1] = a[1] + a[2]

\* a ++ b for byte strings in normal form: the runs at the seam are merged
RCat(a, b) ==
    LET a1 == SelectSeq(a, LAMBDA r : r[2] > 0)
        b1 == SelectSeq(b, LAMBDA r : r[2] > 0)
    IN  IF a1 = <<>> THEN b1
        ELSE IF b1 = <<>> THEN a1
        ELSE LET x == a1[Len(a1)]
                 y == b1[1]
             IN  IF Joins(x, y)
                 THEN SubSeq(a1, 1, Len(a1) - 1)
                      \o << <<x[1], x[2] + y[2]>> >> \o Tail(b1)
                 ELSE a1 \o b1

\* the normal form of a byte string (by halves: the strings of a full
\* buffer have some fifty runs)
RECURSIVE RNorm(_)
RNorm(rs) ==
    IF Len(rs) <= 1 THEN SelectSeq(rs, LAMBDA r : r[2] > 0)
    ELSE LET m == Len(rs) \div 2
         IN  RCat(RNorm(SubSeq(rs, 1, m)), RNorm(SubSeq(rs, m + 1, Len(rs))))

RECURSIVE RLen(_)
RLen(rs) == IF rs = <<>> THEN 0 ELSE Head(rs)[2] + RLen(Tail(rs))

RECURSIVE RTake(_, _)
RTake(rs, n) ==
    IF n <= 0 \/ rs = <<>> THEN <<>>
    ELSE LET h == Head(rs)
         IN  IF h[2] <= n THEN <<h>> \o RTake(Tail(rs), n - h[2])
             ELSE << <<h[1], n>> >>

RECURSIVE RDrop(_, _)
RDrop(rs, n) ==
    IF n <= 0 \/ rs = <<>> THEN rs
    ELSE LET h == Head(rs)
         IN  IF h[2] <= n THEN RDrop(Tail(rs), n - h[2])
             ELSE << <<Shift(h[1], n), h[2] - n>> >> \o Tail(rs)

\* memcpy(dst + off, src, n) on a buffer held as a byte string
memcpy(dst, off, src) ==
    RNorm(RTake(dst, off) \o src \o RDrop(dst, off + RLen(src)))

(***************************************************************************)
(* h2_conn_io_init.  The struct is embedded in the session, which the      *)
(* caller allocates zeroed: bytes_written and unflushed, which init does   *)
(* not assign, start as 0.                                                 *)
(***************************************************************************)
ZeroedIO ==
    [buffer_output |-> FALSE, bufsize |-> 0, buffer |-> <<>>, buflen |-> 0,
     write_size |-> 0, bytes_written |-> 0, last_write |-> 0,
     unflushed |-> FALSE, output |-> <<>>]

h2_conn_io_init(z, is_tls) ==
    [z EXCEPT !.output = <<>>,
              !.buflen = 0,
              !.write_size = WRITE_SIZE_INITIAL,
              !.last_write = 0,
              !.buffer_output = is_tls,
              !.bufsize = IF is_tls THEN WRITE_BUFFER_SIZE ELSE 0,
              !.buffer = IF is_tls THEN << <<ZeroByte, WRITE_BUFFER_SIZE>> >>
                         ELSE <<>>]

(***************************************************************************)
(* The state a call works on: the struct, the clock, and the record of     *)
(* what the call did.  failAt = k makes the k-th ap_pass_brigade of the    *)
(* call fail (0: none fails).  The clock does not move during a call.      *)
(***************************************************************************)
Call(failAt) ==
    [io |-> io, now |-> now, sent |-> sent, mark |-> mark,
     ev |-> <<>>, passes |-> <<>>, status |-> APR_SUCCESS,
     failAt |-> failAt]

\* The output brigade is a sequence of entries.  A "transient" entry
\* stands for `count` consecutive transient buckets of `len` bytes each,
\* pointing into io->buffer from offset `off` on; a "heap" entry is a heap
\* bucket that owns its bytes; a "flush" entry is a flush bucket.
BucketData(b, buffer) ==
    CASE b.type = "transient" -> RTake(RDrop(buffer, b.off), b.len * b.count)
      [] b.type = "heap" -> b.data
      [] OTHER -> <<>>

BucketLen(b) ==
    CASE b.type = "transient" -> b.len * b.count
      [] b.type = "heap" -> RLen(b.data)
      [] OTHER -> 0

\* apr_brigade_length
RECURSIVE BrigadeLength(_)
BrigadeLength(bb) ==
    IF bb = <<>> THEN 0 ELSE BucketLen(Head(bb)) + BrigadeLength(Tail(bb))

\* the bytes of a brigade, in order
RECURSIVE BrigadeData(_, _)
BrigadeData(bb, buffer) ==
    IF bb = <<>> THEN <<>>
    ELSE RCat(RNorm(BucketData(Head(bb), buffer)),
              BrigadeData(Tail(bb), buffer))

\* the lengths of the data buckets of a brigade, in order, as runs
\* <<length, count>> of buckets of equal length
RECURSIVE BrigadeLens(_)
BrigadeLens(bb) ==
    IF bb = <<>> THEN <<>>
    ELSE LET h == Head(bb)
             t == BrigadeLens(Tail(bb))
             n == IF h.type = "transient" THEN h.count ELSE 1
         IN  IF h.type = "flush" THEN t
             ELSE IF t # <<>> /\ t[1][1] = BucketLen(h) \div n
                  THEN << <<t[1][1], t[1][2] + n>> >> \o Tail(t)
                  ELSE << <<BucketLen(h) \div n, n>> >> \o t

\* mutant: a failed pass is counted as written
WrittenAlways(bytes_written, bblen, ok) == bytes_written + bblen

\* io->bytes_written after a pass of bblen bytes: counted on success only
Written(bytes_written, bblen, ok) ==
    IF ok THEN bytes_written + bblen ELSE bytes_written

\* flush_out: pass io->output down the filters; count it on success;
\* the brigade is emptied either way
flush_out(st) ==
    LET bblen == BrigadeLength(st.io.output)
        ok == Len(st.passes) + 1 # st.failAt
        t == st.now
        data == BrigadeData(st.io.output, st.io.buffer)
        pass == [lens |-> BrigadeLens(st.io.output),
                 data |-> data,
                 flush |-> \E i \in 1..Len(st.io.output) :
                              st.io.output[i].type = "flush",
                 ok |-> ok]
    IN  [st EXCEPT
            !.status = IF ok THEN APR_SUCCESS ELSE APR_ECONNRESET,
            !.sent = IF ok THEN RCat(@, data) ELSE @,
            !.passes = Append(@, pass),
            !.io.bytes_written = Written(@, bblen, ok),
            !.io.last_write = IF ok THEN t ELSE @,
            !.io.output = <<>>]

\* mutant: the bucket for the bytes after the last full chunk is forgotten
ChunksNoRemainder(remaining, write_size) ==
    LET bcount == remaining \div write_size
    IN  IF bcount > 0
        THEN <<[type |-> "transient", off |-> 0, len |-> write_size,
                count |-> bcount]>>
        ELSE <<>>

\* mutant: all staged bytes go into one bucket
ChunksWhole(remaining, write_size) ==
    IF remaining > 0
    THEN <<[type |-> "transient", off |-> 0, len |-> remaining,
            count |-> 1]>>
    ELSE <<>>

\* the transient buckets bucketeer_buffer makes of `remaining` staged bytes:
\* bcount buckets of write_size bytes, then one of what remains
Chunks(remaining, write_size) ==
    LET bcount == remaining \div write_size
        rest == remaining - bcount * write_size
    IN  (IF bcount > 0
         THEN <<[type |-> "transient", off |-> 0, len |-> write_size,
                 count |-> bcount]>>
         ELSE <<>>)
        \o (IF rest > 0
            THEN <<[type |-> "transient", off |-> bcount * write_size,
                    len |-> rest, count |-> 1]>>
            ELSE <<>>)

\* mutant: the reset does not look at the idle time
TuneNoIdle(write_size, bytes_written, idle) ==
    IF write_size > WRITE_SIZE_INITIAL
    THEN [kind |-> "reset", write_size |-> WRITE_SIZE_INITIAL,
          bytes_written |-> 0]
    ELSE IF write_size < WRITE_SIZE_MAX
            /\ bytes_written >= WRITE_SIZE_THRESHOLD
         THEN [kind |-> "grow", write_size |-> WRITE_SIZE_MAX,
               bytes_written |-> bytes_written]
         ELSE [kind |-> "none", write_size |-> write_size,
               bytes_written |-> bytes_written]

\* mutant: growing takes the buffer size for the largest write size
TuneTooBig(write_size, bytes_written, idle) ==
    IF write_size > WRITE_SIZE_INITIAL /\ idle >= WRITE_SIZE_IDLE_USEC
    THEN [kind |-> "reset", write_size |-> WRITE_SIZE_INITIAL,
          bytes_written |-> 0]
    ELSE IF write_size < WRITE_SIZE_MAX
            /\ bytes_written >= WRITE_SIZE_THRESHOLD
         THEN [kind |-> "grow", write_size |-> WRITE_BUFFER_SIZE,
               bytes_written |-> bytes_written]
         ELSE [kind |-> "none", write_size |-> write_size,
               bytes_written |-> bytes_written]

\* the write_size tuning at the head of bucketeer_buffer
Tune(write_size, bytes_written, idle) ==
    IF write_size > WRITE_SIZE_INITIAL /\ idle >= WRITE_SIZE_IDLE_USEC
    THEN [kind |-> "reset", write_size |-> WRITE_SIZE_INITIAL,
          bytes_written |-> 0]
    ELSE IF write_size < WRITE_SIZE_MAX
            /\ bytes_written >= WRITE_SIZE_THRESHOLD
         THEN [kind |-> "grow", write_size |-> WRITE_SIZE_MAX,
               bytes_written |-> bytes_written]
         ELSE [kind |-> "none", write_size |-> write_size,
               bytes_written |-> bytes_written]

bucketeer_buffer(st) ==
    LET idle == st.now - st.io.last_write
        t == Tune(st.io.write_size, st.io.bytes_written, idle)
        e == [kind |-> t.kind, idle |-> idle,
              ws_before |-> st.io.write_size, ws_after |-> t.write_size,
              bw_before |-> st.io.bytes_written, bw_after |-> t.bytes_written,
              since |-> RLen(st.sent) - st.mark,
              remaining |-> st.io.buflen,
              staged |-> RNorm(RTake(st.io.buffer, st.io.buflen))]
    IN  [st EXCEPT
            !.io.write_size = t.write_size,
            !.io.bytes_written = t.bytes_written,
            !.io.output = @ \o Chunks(st.io.buflen, t.write_size),
            !.mark = IF t.kind = "reset" THEN RLen(st.sent) ELSE @,
            !.ev = Append(@, e)]

\* apr_brigade_write(io->output, flush_out, io, buf, length) of the APR
\* library: small data is copied to a heap bucket at the tail, data that
\* does not fit goes out at once as a transient bucket through flush_out
apr_brigade_write(st, src) ==
    LET bb == st.io.output
        n == RLen(src)
        hasheap == bb # <<>> /\ bb[Len(bb)].type = "heap"
        remaining == IF hasheap
                     THEN APR_BUCKET_BUFF_SIZE - RLen(bb[Len(bb)].data)
                     ELSE APR_BUCKET_BUFF_SIZE
    IN  IF n > remaining
        THEN flush_out([st EXCEPT
                 !.io.output = Append(@, [type |-> "heap", data |-> src])])
        ELSE IF hasheap
             THEN [st EXCEPT !.io.output[Len(bb)].data = RNorm(@ \o src)]
             ELSE [st EXCEPT
                      !.io.output = Append(@, [type |-> "heap", data |-> src])]

\* mutant: a buffer that cannot take all of buf goes out before it is full
RECURSIVE write_loop_eager(_, _, _)
write_loop_eager(st, pos, length) ==
    IF length > 0 /\ st.status = APR_SUCCESS
    THEN LET avail == st.io.bufsize - st.io.buflen
         IN  IF avail <= 0 \/ (length > avail /\ st.io.buflen > 0)
             THEN write_loop_eager([flush_out(bucketeer_buffer(st))
                                       EXCEPT !.io.buflen = 0], pos, length)
             ELSE IF length > avail
                  THEN write_loop_eager(
                         [st EXCEPT
                            !.io.buffer = memcpy(@, st.io.buflen,
                                                 << <<pos, avail>> >>),
                            !.io.buflen = @ + avail],
                         pos + avail, length - avail)
                  ELSE [st EXCEPT
                          !.io.buffer = memcpy(@, st.io.buflen,
                                               << <<pos, length>> >>),
                          !.io.buflen = @ + length]
    ELSE st

\* mutant: what is left of buf is copied whether it fits or not
RECURSIVE write_loop_nocap(_, _, _)
write_loop_nocap(st, pos, length) ==
    IF length > 0 /\ st.status = APR_SUCCESS
    THEN LET avail == st.io.bufsize - st.io.buflen
         IN  IF avail <= 0
             THEN write_loop_nocap([flush_out(bucketeer_buffer(st))
                                       EXCEPT !.io.buflen = 0], pos, length)
             ELSE [st EXCEPT
                     !.io.buffer = memcpy(@, st.io.buflen,
                                          << <<pos, length>> >>),
                     !.io.buflen = @ + length]
    ELSE st

\* the buffering loop of h2_conn_io_write; pos is the stream offset of buf
RECURSIVE write_loop(_, _, _)
write_loop(st, pos, length) ==
    IF length > 0 /\ st.status = APR_SUCCESS
    THEN LET avail == st.io.bufsize - st.io.buflen
         IN  IF avail <= 0
             THEN write_loop([flush_out(bucketeer_buffer(st))
                                 EXCEPT !.io.buflen = 0], pos, length)
             ELSE IF length > avail
                  THEN write_loop(
                         [st EXCEPT
                            !.io.buffer = memcpy(@, st.io.buflen,
                                                 << <<pos, avail>> >>),
                            !.io.buflen = @ + avail],
                         pos + avail, length - avail)
                  ELSE [st EXCEPT
                          !.io.buffer = memcpy(@, st.io.buflen,
                                               << <<pos, length>> >>),
                          !.io.buflen = @ + length]
    ELSE st

\* mutant: the write does not mark the channel
h2_conn_io_write_unmarked(st, pos, length) ==
    IF st.io.buffer_output
    THEN write_loop(st, pos, length)
    ELSE apr_brigade_write(st, << <<pos, length>> >>)

h2_conn_io_write(st, pos, length) ==
    LET s1 == [st EXCEPT !.io.unflushed = TRUE]
    IN  IF s1.io.buffer_output
        THEN write_loop(s1, pos, length)
        ELSE apr_brigade_write(s1, << <<pos, length>> >>)

\* mutant: the mark is cleared whatever the pass answered
h2_conn_io_flush_clears(st) ==
    IF st.io.unflushed
    THEN LET s1 == IF st.io.buflen > 0
                   THEN [bucketeer_buffer(st) EXCEPT !.io.buflen = 0]
                   ELSE st
             s2 == [s1 EXCEPT !.io.output = Append(@, [type |-> "flush"])]
         IN  [flush_out(s2) EXCEPT !.io.unflushed = FALSE]
    ELSE [st EXCEPT !.status = APR_SUCCESS]

\* mutant: the flush bucket goes out whether the channel is marked or not
h2_conn_io_flush_always(st) ==
    LET s1 == IF st.io.buflen > 0
              THEN [bucketeer_buffer(st) EXCEPT !.io.buflen = 0]
              ELSE st
        s2 == [s1 EXCEPT !.io.output = Append(@, [type |-> "flush"])]
        s3 == flush_out(s2)
    IN  IF s3.status = APR_SUCCESS
        THEN [s3 EXCEPT !.io.unflushed = FALSE]
        ELSE s3

h2_conn_io_flush(st) ==
    IF st.io.unflushed
    THEN LET s1 == IF st.io.buflen > 0
                   THEN [bucketeer_buffer(st) EXCEPT !.io.buflen = 0]
                   ELSE st
             s2 == [s1 EXCEPT !.io.output = Append(@, [type |-> "flush"])]
             s3 == flush_out(s2)
         IN  IF s3.status = APR_SUCCESS
             THEN [s3 EXCEPT !.io.unflushed = FALSE]
             ELSE s3
    ELSE [st EXCEPT !.status = APR_SUCCESS]

(***************************************************************************)
(* The channel's specification                                             *)
(***************************************************************************)
Count(events, kind) == Cardinality({i \in 1..Len(events) : events[i].kind = kind})

(***************************************************************************)
(* h2_conn_io_read.  The bytes of the input stream are named by their      *)
(* offsets in it; a staged bucket is a metadata bucket or the len bytes    *)
(* from offset lo on.  One step is one round of the loop of                *)
(* h2_conn_io_bucket_read (with its on_read_cb call), the end of that      *)
(* loop, or the ap_get_brigade call.                                       *)
(***************************************************************************)
APR_BLOCK_READ == "APR_BLOCK_READ"
APR_NONBLOCK_READ == "APR_NONBLOCK_READ"
APR_EGENERAL == "APR_EGENERAL"

MaxInput == 5   \* bytes the transport delivers in one run

\* what one successful ap_get_brigade may append: the buckets in order,
\* each a data bucket of some length or a metadata bucket
Shapes ==
    { <<>>,
      << <<"data", 1>> >>,
      << <<"data", 3>> >>,
      << <<"data", 2>>, <<"meta", 0>>, <<"data", 1>> >>,
      << <<"data", 0>>, <<"data", 2>> >>,
      << <<"meta", 0>> >> }

RECURSIVE ShapeLen(_)
ShapeLen(sh) ==
    IF sh = <<>> THEN 0
    ELSE Head(sh)[2] + ShapeLen(Tail(sh))

RECURSIVE Layout(_, _)
Layout(sh, off) ==
    IF sh = <<>> THEN <<>>
    ELSE <<[type |-> Head(sh)[1], lo |-> off, len |-> Head(sh)[2]]>>
         \o Layout(Tail(sh), off + Head(sh)[2])

\* the data bytes staged in a brigade, in order
RECURSIVE Staged(_)
Staged(bb) ==
    IF bb = <<>> THEN <<>>
    ELSE IF Head(bb).type = "data"
         THEN RCat(RNorm(<< <<Head(bb).lo, Head(bb).len>> >>), Staged(Tail(bb)))
         ELSE Staged(Tail(bb))

\* mutant: the bucket is deleted whole, the unconsumed rest with it
AfterCallbackNoSplit(bb, status, consumed) == Tail(bb)

\* io->input after on_read_cb answered for its first bucket: the bucket is
\* split at `consumed` when data is left in it, then the (first part of
\* the) bucket is deleted
AfterCallback(bb, status, consumed) ==
    LET b == Head(bb)
    IN  IF status = APR_SUCCESS /\ b.len > consumed
        THEN <<[type |-> "data", lo |-> b.lo + consumed,
                len |-> b.len - consumed]>> \o Tail(bb)
        ELSE Tail(bb)

\* mutant: the loop ends once the consumer has taken a byte
LoopCondFirstOnly ==
    rl.status = APR_SUCCESS /\ ~rl.done /\ input # <<>> /\ rl.readlen = 0

\* mutant: the loop does not look at what the consumer said of done
LoopCondNoDone == rl.status = APR_SUCCESS /\ input # <<>>

\* the loop condition of h2_conn_io_bucket_read
LoopCond == rl.status = APR_SUCCESS /\ ~rl.done /\ input # <<>>

\* mutant: an empty pass is APR_EAGAIN for a blocking read too
BucketReadStatusAnyBlock(locals, block) ==
    IF locals.readlen = 0 /\ locals.status = APR_SUCCESS
    THEN APR_EAGAIN
    ELSE locals.status

\* what h2_conn_io_bucket_read returns after its loop
BucketReadStatus(locals, block) ==
    IF locals.readlen = 0 /\ locals.status = APR_SUCCESS
       /\ block = APR_NONBLOCK_READ
    THEN APR_EAGAIN
    ELSE locals.status

FreshLocals == [status |-> APR_SUCCESS, done |-> FALSE, readlen |-> 0]

ReadEnter ==
    /\ rpc = "idle"
    /\ \E block \in {APR_BLOCK_READ, APR_NONBLOCK_READ} : rblock' = block
    /\ rpc' = IF input # <<>> THEN "loop1" ELSE "fetch"
    /\ rl' = FreshLocals
    /\ nreq' = 0
    /\ centry' = ctotal
    /\ last' = "enter"
    /\ UNCHANGED <<input, rret, delivered, ctotal, hand, cbfail, sbstatus,
                   tstat>>
    /\ UNCHANGED <<iovars, rcvars, cnvars>>

\* one round of the loop: a metadata or empty bucket is deleted, a data
\* bucket is handed to on_read_cb, which answers (consumed, done, status)
ReadLoopStep ==
    /\ rpc \in {"loop1", "loop2"}
    /\ LoopCond
    /\ LET b == Head(input)
       IN  IF b.type = "meta" \/ b.len = 0
           THEN /\ input' = Tail(input)
                /\ last' = IF b.type = "meta" THEN "meta" ELSE "empty"
                /\ UNCHANGED <<rl, ctotal, hand, cbfail>>
           ELSE \E consumed \in 0..b.len, done \in BOOLEAN,
                   status \in {APR_SUCCESS, APR_EGENERAL} :
                /\ input' = AfterCallback(input, status, consumed)
                /\ rl' = [status |-> status, done |-> done,
                          readlen |-> rl.readlen + consumed]
                /\ ctotal' = ctotal + consumed
                /\ hand' = [lo |-> b.lo, len |-> b.len,
                            consumed |-> consumed, done |-> done,
                            status |-> status]
                /\ cbfail' = (cbfail \/ status # APR_SUCCESS)
                /\ last' = "hand"
    /\ UNCHANGED <<rpc, rblock, rret, delivered, sbstatus, nreq, centry,
                   tstat>>
    /\ UNCHANGED <<iovars, rcvars, cnvars>>

\* the loop has ended: h2_conn_io_bucket_read returns to h2_conn_io_read
ReadLoopExit ==
    /\ rpc \in {"loop1", "loop2"}
    /\ ~LoopCond
    /\ LET status == BucketReadStatus(rl, rblock)
       IN  IF rpc = "loop2" \/ status # APR_SUCCESS \/ rl.done
           THEN /\ rret' = status
                /\ rpc' = "idle"
                /\ input' = input
           ELSE /\ rret' = rret
                /\ rpc' = "fetch"
                /\ input' = <<>>
    /\ last' = "exit"
    /\ UNCHANGED <<rblock, rl, delivered, ctotal, hand, cbfail, sbstatus,
                   nreq, centry, tstat>>
    /\ UNCHANGED <<iovars, rcvars, cnvars>>

\* mutant: the end of the input is not reported
AfterGetEofOk(status) == IF status = APR_EOF THEN APR_SUCCESS ELSE status

\* the switch after ap_get_brigade, for a status other than APR_SUCCESS:
\* every case ends in return status
AfterGet(status) == status

\* the scoreboard update and ap_get_brigade
ReadFetch ==
    /\ rpc = "fetch"
    /\ sbstatus' = IF rblock = APR_BLOCK_READ THEN "SERVER_BUSY_KEEPALIVE"
                   ELSE "SERVER_BUSY_READ"
    /\ nreq' = nreq + 1
    /\ last' = "fetch"
    /\ \/ \E sh \in Shapes :
            /\ delivered + ShapeLen(sh) <= MaxInput
            /\ input' = input \o Layout(sh, delivered)
            /\ delivered' = delivered + ShapeLen(sh)
            /\ tstat' = APR_SUCCESS
            /\ rpc' = "loop2"
            /\ rl' = FreshLocals
            /\ rret' = rret
       \/ \E status \in {APR_EOF, APR_EAGAIN, APR_ECONNRESET} :
            /\ tstat' = status
            /\ rret' = AfterGet(status)
            /\ rpc' = "idle"
            /\ UNCHANGED <<input, delivered, rl>>
    /\ UNCHANGED <<rblock, ctotal, hand, cbfail, centry>>
    /\ UNCHANGED <<iovars, rcvars, cnvars>>

RdNext == ReadEnter \/ ReadLoopStep \/ ReadLoopExit \/ ReadFetch

RdInit ==
    /\ input = <<>>
    /\ rpc = "idle"
    /\ rblock = "APR_BLOCK_READ"
    /\ rl = [status |-> APR_SUCCESS, done |-> FALSE, readlen |-> 0]
    /\ rret = APR_SUCCESS
    /\ delivered = 0
    /\ ctotal = 0
    /\ hand = [lo |-> 0, len |-> 0, consumed |-> 0, done |-> FALSE,
               status |-> APR_SUCCESS]
    /\ last = "init"
    /\ cbfail = FALSE
    /\ sbstatus = "SERVER_READY"
    /\ nreq = 0
    /\ centry = 0
    /\ tstat = APR_SUCCESS

IOInit ==
    /\ \E is_tls \in BOOLEAN : io = h2_conn_io_init(ZeroedIO, is_tls)
    /\ now = StartTime
    /\ given = 0
    /\ sent = <<>>
    /\ mark = 0
    /\ ev = <<>>
    /\ passes = <<>>
    /\ rstatus = APR_SUCCESS
    /\ lastcall = "init"
    /\ nwrites = 0
    /\ nfail = 0
    /\ nreset = 0
    /\ ngrow = 0

\* what a finished call leaves behind
Return(st, call) ==
    /\ io' = st.io
    /\ now' = now
    /\ sent' = st.sent
    /\ mark' = st.mark
    /\ ev' = st.ev
    /\ passes' = st.passes
    /\ rstatus' = st.status
    /\ lastcall' = call
    /\ nfail' = nfail + (IF st.status = APR_SUCCESS THEN 0 ELSE 1)
    /\ nreset' = nreset + Count(st.ev, "reset")
    /\ ngrow' = ngrow + Count(st.ev, "grow")

FailChoices == IF nfail < MaxFails THEN 0..2 ELSE {0}

Write ==
    /\ nwrites < MaxWrites
    /\ \E length \in WriteLens, failAt \in FailChoices :
          /\ \E st \in {h2_conn_io_write(Call(failAt), given, length)} :
                Return(st, "write")
          /\ given' = given + length
    /\ nwrites' = nwrites + 1
    /\ UNCHANGED <<rdvars, rcvars, cnvars>>

Flush ==
    /\ \E failAt \in FailChoices :
          \E st \in {h2_conn_io_flush(Call(failAt))} : Return(st, "flush")
    /\ UNCHANGED <<given, nwrites>>
    /\ UNCHANGED <<rdvars, rcvars, cnvars>>

Tick ==
    /\ now + WRITE_SIZE_IDLE_USEC <= MaxNow
    /\ now' = now + WRITE_SIZE_IDLE_USEC
    /\ UNCHANGED <<io, given, sent, mark, ev, passes, rstatus, lastcall,
                   nwrites, nfail, nreset, ngrow>>
    /\ UNCHANGED <<rdvars, rcvars, cnvars>>

IONext == Write \/ Flush \/ Tick

(***************************************************************************)
(* Reclaiming child processes, server/mpm_unix.c                           *)
(***************************************************************************)
DO_NOTHING == "DO_NOTHING"
SEND_SIGTERM == "SEND_SIGTERM"
SEND_SIGKILL == "SEND_SIGKILL"
GIVEUP == "GIVEUP"

APR_CHILD_DONE == "APR_CHILD_DONE"
APR_CHILD_NOTDONE == "APR_CHILD_NOTDONE"
ECHILD == "ECHILD"

apr_time_from_sec(sec) == sec * 1000000

\* bounds of the process model
MaxDaemons == 1
MaxPid == 2
MaxExtras == 1
\* the longest extras list of the specification of the list alone
MaxList == 3
\* the bytes written to a pipe of death before the writes of the model fail
MaxSignals == 3
\* the most connections one ap_mpm_pod_killpg is asked for
MaxNum == 2
\* the largest exit code or signal number a child ends with
MaxStatus == 15
OverrunUsec == 5000000

Pids == 1..MaxPid

\* how much longer than asked apr_sleep may take: one sleep of a run may
\* overrun, the others take the time asked for
Overruns(exact) == IF exact THEN {0, OverrunUsec} ELSE {0}

action_table ==
    [i \in 0..5 |->
        << [action |-> DO_NOTHING,   action_time |-> 0],
           [action |-> SEND_SIGTERM, action_time |-> apr_time_from_sec(3)],
           [action |-> SEND_SIGTERM, action_time |-> apr_time_from_sec(5)],
           [action |-> SEND_SIGTERM, action_time |-> apr_time_from_sec(7)],
           [action |-> SEND_SIGKILL, action_time |-> apr_time_from_sec(9)],
           [action |-> GIVEUP,       action_time |-> apr_time_from_sec(10)]
        >>[i + 1]]

\* ap_register_extra_mpm_process: the new entry becomes the head
ap_register_extra_mpm_process(list, pid) == <<pid>> \o list

\* mutant: every entry with this pid is unlinked
ap_unregister_every(list, pid) ==
    [found |-> IF \E k \in DOMAIN list : list[k] = pid THEN 1 ELSE 0,
     extras |-> SelectSeq(list, LAMBDA q : q # pid)]

\* ap_unregister_extra_mpm_process: unlink the first entry with this pid
ap_unregister_extra_mpm_process(list, pid) ==
    LET hits == {k \in DOMAIN list : list[k] = pid} IN
    IF hits = {}
    THEN [found |-> 0, extras |-> list]
    ELSE LET k == CHOOSE h \in hits : \A g \in hits : h <= g IN
         [found |-> 1,
          extras |-> SubSeq(list, 1, k - 1) \o SubSeq(list, k + 1, Len(list))]

\* apr_proc_wait(..., APR_NOWAIT): waitpid on a child of this process
apr_proc_wait(pt, pid) ==
    IF pid \notin DOMAIN pt THEN ECHILD
    ELSE IF pt[pid] = "running" THEN APR_CHILD_NOTDONE
    ELSE IF pt[pid] = "zombie" THEN APR_CHILD_DONE
    ELSE ECHILD

\* mutant: the signal of the action goes out before the wait is looked at
reclaim_one_pid_blind(pt, pid, action) ==
    IF pid < 1
    THEN [ret |-> 1, proc |-> pt, sig |-> "none", done |-> FALSE]
    ELSE LET waitret == apr_proc_wait(pt, pid) IN
         [ret |-> IF waitret # APR_CHILD_NOTDONE THEN 1 ELSE 0,
          proc |-> IF waitret = APR_CHILD_DONE
                   THEN [pt EXCEPT ![pid] = "gone"] ELSE pt,
          sig |-> CASE action = SEND_SIGTERM -> "SIGTERM"
                    [] action = SEND_SIGKILL -> "SIGKILL"
                    [] OTHER -> "none",
          done |-> waitret = APR_CHILD_DONE]

\* reclaim_one_pid: 1 when the pid needs no more attention, 0 when the
\* process is still there; sig is the signal sent to it, if any
reclaim_one_pid(pt, pid, action) ==
    IF pid < 1
    THEN [ret |-> 1, proc |-> pt, sig |-> "none", done |-> FALSE]
    ELSE LET waitret == apr_proc_wait(pt, pid) IN
         IF waitret # APR_CHILD_NOTDONE
         THEN [ret |-> 1,
               proc |-> IF waitret = APR_CHILD_DONE
                        THEN [pt EXCEPT ![pid] = "gone"] ELSE pt,
               sig |-> "none",
               done |-> waitret = APR_CHILD_DONE]
         ELSE [ret |-> 0, proc |-> pt,
               sig |-> CASE action = SEND_SIGTERM -> "SIGTERM"
                         [] action = SEND_SIGKILL -> "SIGKILL"
                         [] OTHER -> "none",
               done |-> FALSE]

\* ap_mpm_note_child_killed: the slot is no longer in use
ap_mpm_note_child_killed(board, i) == [board EXCEPT ![i] = 0]

\* what one scan has seen and done so far
Seen(s, pid, r) ==
    [s EXCEPT !.proc = r.proc,
              !.not_dead_yet = @ + (IF r.ret = 0 THEN 1 ELSE 0),
              !.sigs = IF r.sig = "none" THEN @ ELSE @ \cup {<<pid, r.sig>>},
              !.reaped = IF r.done THEN @ \cup {pid} ELSE @,
              !.logged = IF r.ret = 0 THEN @ \cup {pid} ELSE @,
              !.checked = Append(@, pid)]

\* the loop over the scoreboard slots, from slot i on
RECURSIVE ScanScoreboard(_, _, _)
ScanScoreboard(s, i, action) ==
    IF i > MaxDaemons THEN s
    ELSE IF s.sb[i] = 0 THEN ScanScoreboard(s, i + 1, action)
    ELSE LET r == reclaim_one_pid(s.proc, s.sb[i], action)
             t == Seen(s, s.sb[i], r)
         IN ScanScoreboard(
                IF r.ret = 1
                THEN [t EXCEPT !.sb = ap_mpm_note_child_killed(@, i)]
                ELSE t,
                i + 1, action)

\* the loop over the extras: cur_extra walks the entries the list had,
\* its successor saved before the entry is unlinked
RECURSIVE ScanExtras(_, _, _, _)
ScanExtras(s, list, k, action) ==
    IF k > Len(list) THEN s
    ELSE LET r == reclaim_one_pid(s.proc, list[k], action)
             t == Seen(s, list[k], r)
             u == ap_unregister_extra_mpm_process(t.extras, list[k])
         IN ScanExtras(
                IF r.ret = 1 /\ debug
                THEN [t EXCEPT !.extras = u.extras,
                               !.asserted = @ \/ u.found # 1]
                ELSE t,
                list, k + 1, action)

ScanStart ==
    [proc |-> proc, sb |-> sb, extras |-> extras, not_dead_yet |-> 0,
     sigs |-> {}, reaped |-> {}, logged |-> {}, asserted |-> FALSE,
     checked |-> <<>>]

\* mutant: the sleep is doubled
NextWaitDouble(waittime) ==
    IF waittime * 2 > apr_time_from_sec(1)
    THEN apr_time_from_sec(1)
    ELSE waittime * 2

\* mutant: the sleep keeps growing beyond a second
NextWaitNoCap(waittime) == waittime * 4

\* the sleep of the next iteration
NextWait(waittime) ==
    IF waittime * 4 > apr_time_from_sec(1)
    THEN apr_time_from_sec(1)
    ELSE waittime * 4

\* mutant: the next entry is taken whatever the elapsed time
ChooseActionAlways(next_action, elapsed) ==
    [cur_action |-> next_action, next_action |-> next_action + 1]

\* mutant: the latest entry whose time has come is taken
ChooseActionLatest(next_action, elapsed) ==
    LET due == {i \in next_action..5 :
                   action_table[i].action_time <= elapsed} IN
    IF due = {}
    THEN [cur_action |-> 0, next_action |-> next_action]
    ELSE LET i == CHOOSE d \in due : \A e \in due : e <= d IN
         [cur_action |-> i, next_action |-> i + 1]

\* "see what action to take, if any"
ChooseAction(next_action, elapsed) ==
    IF action_table[next_action].action_time <= elapsed
    THEN [cur_action |-> next_action, next_action |-> next_action + 1]
    ELSE [cur_action |-> 0, next_action |-> next_action]

\* mutant: one straggler is not waited for
LoopAgainButOne(not_dead_yet, action) == not_dead_yet > 1 /\ action # GIVEUP

\* the condition of the do ... while
LoopAgain(not_dead_yet, action) == not_dead_yet > 0 /\ action # GIVEUP

NoPoll ==
    [n |-> 0, elapsed |-> 0, slept |-> 0, next_before |-> 1, cur |-> 0,
     action |-> DO_NOTHING, applied |-> 0, exact |-> TRUE,
     not_dead_yet |-> 0, sigs |-> {}, reaped |-> {}, logged |-> {},
     order |-> <<>>]

\* no relieve yet; else the pids that were in use and the extras list at
\* the call, the pids reclaim_one_pid was called with, in order, the
\* signals sent and the children reaped
NoRelieve ==
    [called |-> FALSE, inuse |-> <<>>, extras |-> <<>>, checked |-> <<>>,
     sigs |-> {}, reaped |-> {}, passes |-> 0]

NoUnregister == [pid |-> -1, found |-> -1]

\* no pipe of death yet, and no call on it
NoPod == [open |-> FALSE, bytes |-> 0, signals |-> 0, died |-> 0]
\* (io is what the read or the write of the pipe answered; len is the len
\* apr_file_read gave back, in a check, and the number of connections asked
\* for, in a killpg; tried counts the calls of dummy_connection; ff is the
\* first of the connections asked for that would fail, 0 when none would)
NoPodCall ==
    [op |-> "none", rv |-> APR_SUCCESS, io |-> "none", tried |-> 0,
     sent |-> 0, len |-> 0, before |-> 0, ff |-> 0]

\* no call of ap_process_child_status yet
NoChildStatus ==
    [called |-> FALSE, why |-> {}, status |-> 0, ret |-> 0, log |-> "none"]

RcIdle ==
    [pc |-> "idle", waittime |-> 0, elapsed |-> 0, next_action |-> 1,
     cur_action |-> 0, not_dead_yet |-> 0, polls |-> 0]

KnownPids(board, list) ==
    {board[i] : i \in DOMAIN board} \cup {list[k] : k \in DOMAIN list}

\* the scoreboards at the start: slot i is not in use or holds child i
Boards == {b \in [1..MaxDaemons -> 0..MaxPid] :
              \A i \in 1..MaxDaemons : b[i] \in {0, i}}

RcInit ==
    /\ sb \in Boards
    /\ proc = [p \in Pids |-> "running"]
    /\ extras = <<>>
    /\ debug \in BOOLEAN
    /\ rc = RcIdle
    /\ plog = NoPoll
    /\ known0 = {}
    /\ uret = NoUnregister
    /\ rlv = NoRelieve
    /\ pod = NoPod
    /\ pcall = NoPodCall
    /\ cstat = NoChildStatus

\* the other parts see no child processes at all
RcNone ==
    /\ sb = [i \in 1..MaxDaemons |-> 0]
    /\ proc = [p \in Pids |-> "gone"]
    /\ extras = <<>>
    /\ debug = FALSE
    /\ rc = RcIdle
    /\ plog = NoPoll
    /\ known0 = {}
    /\ uret = NoUnregister
    /\ rlv = NoRelieve
    /\ pod = NoPod
    /\ pcall = NoPodCall
    /\ cstat = NoChildStatus

\* a call of ap_register_extra_mpm_process while the list is shorter than n
RegisterUpTo(n) ==
    /\ rc.pc = "idle"
    /\ Len(extras) < n
    /\ \E pid \in 0..MaxPid :
          extras' = ap_register_extra_mpm_process(extras, pid)
    /\ rlv' = NoRelieve
    /\ uret' = NoUnregister
    /\ UNCHANGED <<sb, proc, debug, rc, plog, known0>>
    /\ UNCHANGED <<pod, pcall, cstat>>
    /\ UNCHANGED <<iovars, rdvars, cnvars>>

Register == RegisterUpTo(MaxExtras)

RegisterMore == RegisterUpTo(MaxList)

Unregister ==
    /\ rc.pc = "idle"
    /\ \E pid \in 0..MaxPid :
          LET u == ap_unregister_extra_mpm_process(extras, pid) IN
          /\ extras' = u.extras
          /\ uret' = [pid |-> pid, found |-> u.found]
    /\ rlv' = NoRelieve
    /\ UNCHANGED <<sb, proc, debug, rc, plog, known0>>
    /\ UNCHANGED <<pod, pcall, cstat>>
    /\ UNCHANGED <<iovars, rdvars, cnvars>>

\* a child process the supervisor keeps track of ends, on its own or by a
\* signal it got
ChildExit ==
    /\ \E pid \in Pids \cap KnownPids(sb, extras) :
          /\ proc[pid] = "running"
          /\ proc' = [proc EXCEPT ![pid] = "zombie"]
    /\ UNCHANGED <<sb, extras, debug, rc, plog, known0, uret, rlv,
                   cstat>>
    /\ UNCHANGED <<pod, pcall, cstat>>
    /\ UNCHANGED <<iovars, rdvars, cnvars>>

\* ap_reclaim_child_processes up to the do
ReclaimStart ==
    /\ rc.pc = "idle"
    /\ rc' = [pc |-> "polling", waittime |-> 1024 * 16, elapsed |-> 0,
              next_action |-> 1, cur_action |-> 0, not_dead_yet |-> 0,
              polls |-> 0]
    /\ plog' = NoPoll
    /\ known0' = KnownPids(sb, extras) \ {0}
    /\ rlv' = NoRelieve
    /\ uret' = NoUnregister
    /\ UNCHANGED <<sb, proc, extras, debug>>
    /\ UNCHANGED <<pod, pcall, cstat>>
    /\ UNCHANGED <<iovars, rdvars, cnvars>>

\* one iteration of the do ... while, its condition included
ReclaimPoll ==
    /\ rc.pc = "polling"
    /\ \E over \in Overruns(plog.exact) :
          LET slept == rc.waittime + over
              elapsed == rc.elapsed + slept
              ch == ChooseAction(rc.next_action, elapsed)
              action == action_table[ch.cur_action].action
              s == ScanExtras(ScanScoreboard(ScanStart, 1, action),
                              extras, 1, action)
          IN
          /\ rc' = [rc EXCEPT
                      !.pc = IF s.asserted THEN "aborted"
                             ELSE IF LoopAgain(s.not_dead_yet, action)
                             THEN "polling" ELSE "returned",
                      !.waittime = NextWait(rc.waittime),
                      !.elapsed = elapsed,
                      !.next_action = ch.next_action,
                      !.cur_action = ch.cur_action,
                      !.not_dead_yet = s.not_dead_yet,
                      !.polls = @ + 1]
          /\ plog' = [n |-> plog.n + 1, elapsed |-> elapsed, slept |-> slept,
                      next_before |-> rc.next_action,
                      cur |-> ch.cur_action, action |-> action,
                      applied |-> plog.applied
                                    + (IF plog.cur # 0 THEN 1 ELSE 0),
                      exact |-> plog.exact /\ over = 0,
                      not_dead_yet |-> s.not_dead_yet, sigs |-> s.sigs,
                      reaped |-> s.reaped, logged |-> s.logged,
                      order |-> IF ch.cur_action # 0
                                THEN Append(plog.order, ch.cur_action)
                                ELSE plog.order]
          /\ sb' = s.sb
          /\ proc' = s.proc
          /\ extras' = s.extras
    /\ UNCHANGED <<debug, known0, uret, rlv,
                   cstat>>
    /\ UNCHANGED <<pod, pcall, cstat>>
    /\ UNCHANGED <<iovars, rdvars, cnvars>>

\* mutant: stragglers are sent SIGTERM
RelieveActionTerm == SEND_SIGTERM

\* the action ap_relieve_child_processes gives reclaim_one_pid
RelieveAction == DO_NOTHING

\* ap_relieve_child_processes: the two loops, once
Relieve ==
    /\ rc.pc = "idle"
    /\ LET s == ScanExtras(ScanScoreboard(ScanStart, 1, RelieveAction),
                           extras, 1, RelieveAction)
       IN  /\ sb' = s.sb
           /\ proc' = s.proc
           /\ extras' = s.extras
           /\ rc' = IF s.asserted THEN [rc EXCEPT !.pc = "aborted"] ELSE rc
           /\ rlv' = [called |-> TRUE,
                      inuse |-> SelectSeq(sb, LAMBDA pid : pid # 0),
                      extras |-> extras,
                      checked |-> s.checked,
                      sigs |-> s.sigs, reaped |-> s.reaped,
                      passes |-> 1]
    /\ uret' = NoUnregister
    /\ UNCHANGED <<debug, plog, known0>>
    /\ UNCHANGED <<pod, pcall, cstat>>
    /\ UNCHANGED <<iovars, rdvars, cnvars>>

RcNext ==
    \/ Register \/ Unregister \/ ChildExit \/ ReclaimStart \/ ReclaimPoll
    \/ Relieve

\* the calls that change the extras list without waiting, on longer lists
ExNext == RegisterMore \/ Unregister \/ ChildExit \/ Relieve

(***************************************************************************)
(* The exit status of a child, server/mpm_unix.c                           *)
(***************************************************************************)
APEXIT_CHILDSICK == 7
APEXIT_CHILDFATAL == 15

\* mutant: every exit code other than 0 is handed back
ap_process_child_status_any(why, status) ==
    IF "APR_PROC_EXIT" \in why
    THEN [ret |-> status, log |-> "none"]
    ELSE [ret |-> 0, log |-> "none"]

\* ap_process_child_status: why is the set of the bits of apr_exit_why_e
\* that are set, status the exit code or the signal number; what is
\* returned and the level of the message logged.  The signals that are not
\* logged are SIGTERM, SIGHUP, AP_SIG_GRACEFUL (SIGUSR1) and SIGKILL.
ap_process_child_status(why, status) ==
    IF "APR_PROC_EXIT" \in why
    THEN IF status = APEXIT_CHILDSICK
         THEN [ret |-> status, log |-> "none"]
         ELSE IF status = APEXIT_CHILDFATAL
         THEN [ret |-> APEXIT_CHILDFATAL, log |-> "APLOG_ALERT"]
         ELSE [ret |-> 0, log |-> "none"]
    ELSE IF "APR_PROC_SIGNAL" \in why /\ status \notin {15, 1, 10, 9}
    THEN [ret |-> 0,
          log |-> IF "APR_PROC_SIGNAL_CORE" \in why
                  THEN "APLOG_NOTICE, possible coredump"
                  ELSE "APLOG_NOTICE"]
    ELSE [ret |-> 0, log |-> "none"]

ProcessChildStatus ==
    /\ \E why \in SUBSET {"APR_PROC_EXIT", "APR_PROC_SIGNAL",
                          "APR_PROC_SIGNAL_CORE"},
          status \in 0..MaxStatus :
          LET r == ap_process_child_status(why, status) IN
          cstat' = [called |-> TRUE, why |-> why, status |-> status,
                    ret |-> r.ret, log |-> r.log]
    /\ UNCHANGED <<sb, proc, extras, debug, rc, plog, known0, uret, rlv,
                   pod, pcall>>
    /\ UNCHANGED <<iovars, rdvars, cnvars>>

CsNext == ProcessChildStatus

(***************************************************************************)
(* The pipe of death, server/mpm_unix.c                                    *)
(***************************************************************************)
AP_NORESTART == "AP_NORESTART"
APR_TIMEUP == "APR_TIMEUP"

\* apr_file_read(pod_in, &c, &len) with len 1 on the read end, which never
\* blocks: a byte of the pipe, or nothing with a status; the runtime may
\* also answer success with len 0
apr_file_read(bytes) ==
    (IF bytes > 0
     THEN {[rv |-> APR_SUCCESS, len |-> 1, bytes |-> bytes - 1]}
     ELSE {[rv |-> APR_EAGAIN, len |-> 0, bytes |-> bytes]})
    \cup {[rv |-> e, len |-> 0, bytes |-> bytes] :
             e \in {APR_EOF, APR_EGENERAL}}
    \cup {[rv |-> APR_SUCCESS, len |-> 0, bytes |-> bytes]}

\* apr_file_write(pod_out, &char_of_death, &one): the byte is in the pipe,
\* or the write failed
apr_file_write(bytes) ==
    {[rv |-> APR_SUCCESS, bytes |-> bytes + 1]}
    \cup {[rv |-> e, bytes |-> bytes] : e \in {APR_EGENERAL, APR_TIMEUP}}

\* mutant: a read without error is a byte read
ap_mpm_pod_check_anylen(rv, len) ==
    IF rv = APR_SUCCESS THEN APR_SUCCESS ELSE rv

\* ap_mpm_pod_check, given what apr_file_read answered
ap_mpm_pod_check(rv, len) ==
    IF rv = APR_SUCCESS /\ len = 1 THEN APR_SUCCESS
    ELSE IF rv # APR_SUCCESS THEN rv
    ELSE AP_NORESTART

\* what the calls dummy_connection makes may answer: the status of
\* apr_pool_create, apr_socket_create, apr_socket_timeout_set,
\* apr_socket_connect and apr_socket_send; at most one of the first four
\* fails, and nothing is sent on a socket that is not connected
DummyOutcomes ==
    {[pool |-> APR_SUCCESS, create |-> APR_SUCCESS,
      timeout |-> APR_SUCCESS, connect |-> APR_SUCCESS, send |-> e] :
        e \in {APR_SUCCESS, APR_EGENERAL}}
    \cup {[pool |-> APR_EGENERAL, create |-> APR_SUCCESS,
           timeout |-> APR_SUCCESS, connect |-> APR_SUCCESS,
           send |-> APR_EGENERAL],
          [pool |-> APR_SUCCESS, create |-> APR_EGENERAL,
           timeout |-> APR_SUCCESS, connect |-> APR_SUCCESS,
           send |-> APR_EGENERAL],
          [pool |-> APR_SUCCESS, create |-> APR_SUCCESS,
           timeout |-> APR_EGENERAL, connect |-> APR_SUCCESS,
           send |-> APR_EGENERAL]}
    \cup {[pool |-> APR_SUCCESS, create |-> APR_SUCCESS,
           timeout |-> APR_SUCCESS, connect |-> e, send |-> APR_EGENERAL] :
             e \in {APR_EGENERAL, APR_TIMEUP}}

\* dummy_connection: the status returned, which is that of the connect
\* when the connect was reached (what apr_socket_send and apr_socket_close
\* answer is dropped), whether apr_socket_connect was called and whether
\* the request was sent
dummy_connection(o) ==
    IF o.pool # APR_SUCCESS
    THEN [rv |-> o.pool, connect |-> FALSE, sent |-> FALSE]
    ELSE IF o.create # APR_SUCCESS
    THEN [rv |-> o.create, connect |-> FALSE, sent |-> FALSE]
    ELSE IF o.timeout # APR_SUCCESS
    THEN [rv |-> o.timeout, connect |-> FALSE, sent |-> FALSE]
    ELSE [rv |-> o.connect, connect |-> TRUE, sent |-> o.send = APR_SUCCESS]

\* mutant: the connection is made whatever the write answered
ap_mpm_pod_signal_always(wrv, o) ==
    [rv |-> IF wrv # APR_SUCCESS THEN wrv ELSE dummy_connection(o).rv,
     tried |-> 1,
     sent |-> IF dummy_connection(o).sent THEN 1 ELSE 0]

\* ap_mpm_pod_signal, given what the write of pod_signal_internal answered
\* and what the calls of dummy_connection would answer: the status
\* returned, the calls of dummy_connection made and the requests sent
ap_mpm_pod_signal(wrv, o) ==
    IF wrv # APR_SUCCESS
    THEN [rv |-> wrv, tried |-> 0, sent |-> 0]
    ELSE [rv |-> dummy_connection(o).rv,
          tried |-> 1,
          sent |-> IF dummy_connection(o).sent THEN 1 ELSE 0]

\* ap_mpm_pod_open: apr_file_pipe_create_ex makes the pipe or fails
PodOpen ==
    /\ ~pod.open
    /\ \E rv \in {APR_SUCCESS, APR_EGENERAL} :
          /\ pod' = IF rv = APR_SUCCESS
                    THEN [NoPod EXCEPT !.open = TRUE] ELSE pod
          /\ pcall' = [NoPodCall EXCEPT !.op = "open", !.rv = rv]
    /\ UNCHANGED <<sb, proc, extras, debug, rc, plog, known0, uret, rlv,
                   cstat>>
    /\ UNCHANGED <<iovars, rdvars, cnvars>>

\* ap_mpm_pod_close: both ends are closed, what was in the pipe is lost
PodClose ==
    /\ pod.open
    /\ pod' = NoPod
    /\ pcall' = [NoPodCall EXCEPT !.op = "close", !.before = pod.bytes]
    /\ UNCHANGED <<sb, proc, extras, debug, rc, plog, known0, uret, rlv,
                   cstat>>
    /\ UNCHANGED <<iovars, rdvars, cnvars>>

PodCheck ==
    /\ pod.open
    /\ \E r \in apr_file_read(pod.bytes) :
          /\ pod' = [pod EXCEPT
                       !.bytes = r.bytes,
                       !.died = IF ap_mpm_pod_check(r.rv, r.len) = APR_SUCCESS
                                THEN @ + 1 ELSE @]
          /\ pcall' = [NoPodCall EXCEPT
                         !.op = "check",
                         !.rv = ap_mpm_pod_check(r.rv, r.len),
                         !.io = r.rv,
                         !.len = r.len, !.before = pod.bytes]
    /\ UNCHANGED <<sb, proc, extras, debug, rc, plog, known0, uret, rlv,
                   cstat>>
    /\ UNCHANGED <<iovars, rdvars, cnvars>>

PodSignal ==
    /\ pod.open
    /\ \E w \in apr_file_write(pod.bytes), o \in DummyOutcomes :
          LET r == ap_mpm_pod_signal(w.rv, o) IN
          /\ w.rv = APR_SUCCESS => pod.signals < MaxSignals
          /\ pod' = [pod EXCEPT
                       !.bytes = w.bytes,
                       !.signals = IF w.rv = APR_SUCCESS THEN @ + 1 ELSE @]
          /\ pcall' = [NoPodCall EXCEPT
                         !.op = "signal", !.rv = r.rv,
                         !.io = w.rv,
                         !.tried = r.tried, !.sent = r.sent,
                         !.before = pod.bytes]
    /\ UNCHANGED <<sb, proc, extras, debug, rc, plog, known0, uret, rlv,
                   cstat>>
    /\ UNCHANGED <<iovars, rdvars, cnvars>>

\* the first k of 1..num for which dummy_connection would not answer
\* success, 0 when there is none
FirstFailure(num, os) ==
    LET bad == {k \in 1..num : dummy_connection(os[k]).rv # APR_SUCCESS} IN
    IF bad = {} THEN 0 ELSE CHOOSE k \in bad : \A j \in bad : k <= j

\* mutant: the loop goes on after a connection that failed
RECURSIVE killpg_loop_all(_, _, _, _)
killpg_loop_all(i, num, r, os) ==
    IF i < num
    THEN LET d == dummy_connection(os[i + 1]) IN
         killpg_loop_all(i + 1, num,
                         [rv |-> d.rv, tried |-> r.tried + 1,
                          sent |-> r.sent + (IF d.sent THEN 1 ELSE 0)],
                         os)
    ELSE r

\* the for loop of ap_mpm_pod_killpg from i on, os[i + 1] being what the
\* calls of the connection made with that i would answer
RECURSIVE killpg_loop(_, _, _, _)
killpg_loop(i, num, r, os) ==
    IF i < num /\ r.rv = APR_SUCCESS
    THEN LET d == dummy_connection(os[i + 1]) IN
         killpg_loop(i + 1, num,
                     [rv |-> d.rv, tried |-> r.tried + 1,
                      sent |-> r.sent + (IF d.sent THEN 1 ELSE 0)],
                     os)
    ELSE r

\* ap_mpm_pod_killpg: no byte is written, the loop starts with success
PodKillpg ==
    /\ pod.open
    /\ \E num \in 0..MaxNum :
          \E os \in [1..num -> DummyOutcomes] :
             LET r == killpg_loop(0, num,
                                  [rv |-> APR_SUCCESS, tried |-> 0,
                                   sent |-> 0], os) IN
             pcall' = [NoPodCall EXCEPT
                         !.op = "killpg", !.rv = r.rv, !.tried = r.tried,
                         !.sent = r.sent, !.len = num,
                         !.before = pod.bytes,
                         !.ff = FirstFailure(num, os)]
    /\ UNCHANGED <<sb, proc, extras, debug, rc, plog, known0, uret, rlv,
                   pod, cstat>>
    /\ UNCHANGED <<iovars, rdvars, cnvars>>

PdNext == PodOpen \/ PodClose \/ PodCheck \/ PodSignal \/ PodKillpg

(***************************************************************************)
(* Taking over a connection, modules/http2/h2_h2.c                         *)
(***************************************************************************)
\* the preface PRI * HTTP/2.0\r\n\r\nSM\r\n\r\n, byte by byte
H2_MAGIC_TOKEN ==
    <<80, 82, 73, 32, 42, 32, 72, 84, 84, 80, 47, 50, 46, 48,
      13, 10, 13, 10, 83, 77, 13, 10, 13, 10>>

AP_PROTOCOL_HTTP1 == "http/1.1"
DECLINED == "DECLINED"
NULLPTR == "(null)"

\* a char * is NULL or a string; the strings compared character by
\* character are sequences of characters
NullStr == [null |-> TRUE, s |-> <<>>]
Str(chars) == [null |-> FALSE, s |-> chars]
NullName == [null |-> TRUE, s |-> ""]
Name(str) == [null |-> FALSE, s |-> str]

\* the character at position i of a C string, "" for the terminating NUL
CharAt(s, i) == IF i <= Len(s) THEN s[i] ELSE ""

RECURSIVE strncmp_from(_, _, _, _)
strncmp_from(a, b, i, n) ==
    IF i > n THEN 0
    ELSE IF CharAt(a, i) # CharAt(b, i) THEN 1
    ELSE IF CharAt(a, i) = "" THEN 0
    ELSE strncmp_from(a, b, i + 1, n)

\* 0 when equal, as in C; the sign of a difference is not modelled
strncmp(a, b, n) == strncmp_from(a, b, 1, n)

\* mutant: the comparison ends with the first string
strcmp_prefix(a, b) == strncmp_from(a, b, 1, Len(a))

strcmp(a, b) == strncmp_from(a, b, 1, Len(a) + Len(b) + 1)

\* 0 when the first n bytes agree; both have at least n bytes
memcmp(a, b, n) == IF \A i \in 1..n : a[i] = b[i] THEN 0 ELSE 1

RFC7540_names ==
    <<"NULL-MD5", "NULL-SHA", "NULL-SHA256", "PSK-NULL-SHA",
     "DHE-PSK-NULL-SHA", "RSA-PSK-NULL-SHA", "PSK-NULL-SHA256",
     "PSK-NULL-SHA384", "DHE-PSK-NULL-SHA256", "DHE-PSK-NULL-SHA384",
     "RSA-PSK-NULL-SHA256", "RSA-PSK-NULL-SHA384", "ECDH-ECDSA-NULL-SHA",
     "ECDHE-ECDSA-NULL-SHA", "ECDH-RSA-NULL-SHA", "ECDHE-RSA-NULL-SHA",
     "AECDH-NULL-SHA", "ECDHE-PSK-NULL-SHA", "ECDHE-PSK-NULL-SHA256",
     "ECDHE-PSK-NULL-SHA384", "PSK-3DES-EDE-CBC-SHA",
     "DHE-PSK-3DES-EDE-CBC-SHA", "RSA-PSK-3DES-EDE-CBC-SHA",
     "ECDH-ECDSA-DES-CBC3-SHA", "ECDHE-ECDSA-DES-CBC3-SHA",
     "ECDH-RSA-DES-CBC3-SHA", "ECDHE-RSA-DES-CBC3-SHA",
     "AECDH-DES-CBC3-SHA", "SRP-3DES-EDE-CBC-SHA",
     "SRP-RSA-3DES-EDE-CBC-SHA", "SRP-DSS-3DES-EDE-CBC-SHA",
     "ECDHE-PSK-3DES-EDE-CBC-SHA", "DES-CBC-SHA", "DES-CBC3-SHA",
     "DHE-DSS-DES-CBC3-SHA", "DHE-RSA-DES-CBC-SHA", "DHE-RSA-DES-CBC3-SHA",
     "ADH-DES-CBC-SHA", "ADH-DES-CBC3-SHA", "EXP-DH-DSS-DES-CBC-SHA",
     "DH-DSS-DES-CBC-SHA", "DH-DSS-DES-CBC3-SHA", "EXP-DH-RSA-DES-CBC-SHA",
     "DH-RSA-DES-CBC-SHA", "DH-RSA-DES-CBC3-SHA", "EXP-RC4-MD5",
     "EXP-RC2-CBC-MD5", "EXP-DES-CBC-SHA", "EXP-DHE-DSS-DES-CBC-SHA",
     "EXP-DHE-RSA-DES-CBC-SHA", "EXP-ADH-DES-CBC-SHA", "EXP-ADH-RC4-MD5",
     "RC4-MD5", "RC4-SHA", "ADH-RC4-MD5", "KRB5-RC4-SHA", "KRB5-RC4-MD5",
     "EXP-KRB5-RC4-SHA", "EXP-KRB5-RC4-MD5", "PSK-RC4-SHA",
     "DHE-PSK-RC4-SHA", "RSA-PSK-RC4-SHA", "ECDH-ECDSA-RC4-SHA",
     "ECDHE-ECDSA-RC4-SHA", "ECDH-RSA-RC4-SHA", "ECDHE-RSA-RC4-SHA",
     "AECDH-RC4-SHA", "ECDHE-PSK-RC4-SHA", "AES128-SHA256",
     "DH-DSS-AES128-SHA", "DH-RSA-AES128-SHA", "DHE-DSS-AES128-SHA",
     "DHE-RSA-AES128-SHA", "ADH-AES128-SHA", "AES128-SHA256",
     "DH-DSS-AES128-SHA256", "DH-RSA-AES128-SHA256",
     "DHE-DSS-AES128-SHA256", "DHE-RSA-AES128-SHA256",
     "ECDH-ECDSA-AES128-SHA", "ECDHE-ECDSA-AES128-SHA",
     "ECDH-RSA-AES128-SHA", "ECDHE-RSA-AES128-SHA", "AECDH-AES128-SHA",
     "ECDHE-ECDSA-AES128-SHA256", "ECDH-ECDSA-AES128-SHA256",
     "ECDHE-RSA-AES128-SHA256", "ECDH-RSA-AES128-SHA256",
     "ADH-AES128-SHA256", "PSK-AES128-CBC-SHA", "DHE-PSK-AES128-CBC-SHA",
     "RSA-PSK-AES128-CBC-SHA", "PSK-AES128-CBC-SHA256",
     "DHE-PSK-AES128-CBC-SHA256", "RSA-PSK-AES128-CBC-SHA256",
     "ECDHE-PSK-AES128-CBC-SHA", "ECDHE-PSK-AES128-CBC-SHA256",
     "AES128-CCM", "AES128-CCM8", "PSK-AES128-CCM", "PSK-AES128-CCM8",
     "AES128-GCM-SHA256", "DH-RSA-AES128-GCM-SHA256",
     "DH-DSS-AES128-GCM-SHA256", "ADH-AES128-GCM-SHA256",
     "PSK-AES128-GCM-SHA256", "RSA-PSK-AES128-GCM-SHA256",
     "ECDH-ECDSA-AES128-GCM-SHA256", "ECDH-RSA-AES128-GCM-SHA256",
     "SRP-AES-128-CBC-SHA", "SRP-RSA-AES-128-CBC-SHA",
     "SRP-DSS-AES-128-CBC-SHA", "AES256-SHA", "DH-DSS-AES256-SHA",
     "DH-RSA-AES256-SHA", "DHE-DSS-AES256-SHA", "DHE-RSA-AES256-SHA",
     "ADH-AES256-SHA", "AES256-SHA256", "DH-DSS-AES256-SHA256",
     "DH-RSA-AES256-SHA256", "DHE-DSS-AES256-SHA256",
     "DHE-RSA-AES256-SHA256", "ADH-AES256-SHA256", "ECDH-ECDSA-AES256-SHA",
     "ECDHE-ECDSA-AES256-SHA", "ECDH-RSA-AES256-SHA",
     "ECDHE-RSA-AES256-SHA", "AECDH-AES256-SHA",
     "ECDHE-ECDSA-AES256-SHA384", "ECDH-ECDSA-AES256-SHA384",
     "ECDHE-RSA-AES256-SHA384", "ECDH-RSA-AES256-SHA384",
     "PSK-AES256-CBC-SHA", "DHE-PSK-AES256-CBC-SHA",
     "RSA-PSK-AES256-CBC-SHA", "PSK-AES256-CBC-SHA384",
     "DHE-PSK-AES256-CBC-SHA384", "RSA-PSK-AES256-CBC-SHA384",
     "ECDHE-PSK-AES256-CBC-SHA", "ECDHE-PSK-AES256-CBC-SHA384",
     "SRP-AES-256-CBC-SHA", "SRP-RSA-AES-256-CBC-SHA",
     "SRP-DSS-AES-256-CBC-SHA", "AES256-CCM", "AES256-CCM8",
     "PSK-AES256-CCM", "PSK-AES256-CCM8", "AES256-GCM-SHA384",
     "DH-RSA-AES256-GCM-SHA384", "DH-DSS-AES256-GCM-SHA384",
     "ADH-AES256-GCM-SHA384", "PSK-AES256-GCM-SHA384",
     "RSA-PSK-AES256-GCM-SHA384", "ECDH-ECDSA-AES256-GCM-SHA384",
     "ECDH-RSA-AES256-GCM-SHA384", "CAMELLIA128-SHA",
     "DH-DSS-CAMELLIA128-SHA", "DH-RSA-CAMELLIA128-SHA",
     "DHE-DSS-CAMELLIA128-SHA", "DHE-RSA-CAMELLIA128-SHA",
     "ADH-CAMELLIA128-SHA", "ECDHE-ECDSA-CAMELLIA128-SHA256",
     "ECDH-ECDSA-CAMELLIA128-SHA256", "ECDHE-RSA-CAMELLIA128-SHA256",
     "ECDH-RSA-CAMELLIA128-SHA256", "PSK-CAMELLIA128-SHA256",
     "DHE-PSK-CAMELLIA128-SHA256", "RSA-PSK-CAMELLIA128-SHA256",
     "ECDHE-PSK-CAMELLIA128-SHA256", "CAMELLIA128-GCM-SHA256",
     "DH-RSA-CAMELLIA128-GCM-SHA256", "DH-DSS-CAMELLIA128-GCM-SHA256",
     "ADH-CAMELLIA128-GCM-SHA256", "ECDH-ECDSA-CAMELLIA128-GCM-SHA256",
     "ECDH-RSA-CAMELLIA128-GCM-SHA256", "PSK-CAMELLIA128-GCM-SHA256",
     "RSA-PSK-CAMELLIA128-GCM-SHA256", "CAMELLIA128-SHA256",
     "DH-DSS-CAMELLIA128-SHA256", "DH-RSA-CAMELLIA128-SHA256",
     "DHE-DSS-CAMELLIA128-SHA256", "DHE-RSA-CAMELLIA128-SHA256",
     "ADH-CAMELLIA128-SHA256", "CAMELLIA256-SHA", "DH-RSA-CAMELLIA256-SHA",
     "DH-DSS-CAMELLIA256-SHA", "DHE-DSS-CAMELLIA256-SHA",
     "DHE-RSA-CAMELLIA256-SHA", "ADH-CAMELLIA256-SHA",
     "ECDHE-ECDSA-CAMELLIA256-SHA384", "ECDH-ECDSA-CAMELLIA256-SHA384",
     "ECDHE-RSA-CAMELLIA256-SHA384", "ECDH-RSA-CAMELLIA256-SHA384",
     "PSK-CAMELLIA256-SHA384", "DHE-PSK-CAMELLIA256-SHA384",
     "RSA-PSK-CAMELLIA256-SHA384", "ECDHE-PSK-CAMELLIA256-SHA384",
     "CAMELLIA256-SHA256", "DH-DSS-CAMELLIA256-SHA256",
     "DH-RSA-CAMELLIA256-SHA256", "DHE-DSS-CAMELLIA256-SHA256",
     "DHE-RSA-CAMELLIA256-SHA256", "ADH-CAMELLIA256-SHA256",
     "CAMELLIA256-GCM-SHA384", "DH-RSA-CAMELLIA256-GCM-SHA384",
     "DH-DSS-CAMELLIA256-GCM-SHA384", "ADH-CAMELLIA256-GCM-SHA384",
     "ECDH-ECDSA-CAMELLIA256-GCM-SHA384", "ECDH-RSA-CAMELLIA256-GCM-SHA384",
     "PSK-CAMELLIA256-GCM-SHA384", "RSA-PSK-CAMELLIA256-GCM-SHA384",
     "ARIA128-SHA256", "ARIA256-SHA384", "DH-DSS-ARIA128-SHA256",
     "DH-DSS-ARIA256-SHA384", "DH-RSA-ARIA128-SHA256",
     "DH-RSA-ARIA256-SHA384", "DHE-DSS-ARIA128-SHA256",
     "DHE-DSS-ARIA256-SHA384", "DHE-RSA-ARIA128-SHA256",
     "DHE-RSA-ARIA256-SHA384", "ADH-ARIA128-SHA256", "ADH-ARIA256-SHA384",
     "ECDHE-ECDSA-ARIA128-SHA256", "ECDHE-ECDSA-ARIA256-SHA384",
     "ECDH-ECDSA-ARIA128-SHA256", "ECDH-ECDSA-ARIA256-SHA384",
     "ECDHE-RSA-ARIA128-SHA256", "ECDHE-RSA-ARIA256-SHA384",
     "ECDH-RSA-ARIA128-SHA256", "ECDH-RSA-ARIA256-SHA384",
     "ARIA128-GCM-SHA256", "ARIA256-GCM-SHA384",
     "DH-DSS-ARIA128-GCM-SHA256", "DH-DSS-ARIA256-GCM-SHA384",
     "DH-RSA-ARIA128-GCM-SHA256", "DH-RSA-ARIA256-GCM-SHA384",
     "ADH-ARIA128-GCM-SHA256", "ADH-ARIA256-GCM-SHA384",
     "ECDH-ECDSA-ARIA128-GCM-SHA256", "ECDH-ECDSA-ARIA256-GCM-SHA384",
     "ECDH-RSA-ARIA128-GCM-SHA256", "ECDH-RSA-ARIA256-GCM-SHA384",
     "PSK-ARIA128-SHA256", "PSK-ARIA256-SHA384", "DHE-PSK-ARIA128-SHA256",
     "DHE-PSK-ARIA256-SHA384", "RSA-PSK-ARIA128-SHA256",
     "RSA-PSK-ARIA256-SHA384", "ARIA128-GCM-SHA256", "ARIA256-GCM-SHA384",
     "RSA-PSK-ARIA128-GCM-SHA256", "RSA-PSK-ARIA256-GCM-SHA384",
     "ECDHE-PSK-ARIA128-SHA256", "ECDHE-PSK-ARIA256-SHA384", "SEED-SHA",
     "DH-DSS-SEED-SHA", "DH-RSA-SEED-SHA", "DHE-DSS-SEED-SHA",
     "DHE-RSA-SEED-SHA", "ADH-SEED-SHA", "KRB5-DES-CBC-SHA",
     "KRB5-DES-CBC3-SHA", "KRB5-IDEA-CBC-SHA", "KRB5-DES-CBC-MD5",
     "KRB5-DES-CBC3-MD5", "KRB5-IDEA-CBC-MD5", "EXP-KRB5-DES-CBC-SHA",
     "EXP-KRB5-DES-CBC-MD5", "EXP-KRB5-RC2-CBC-SHA", "EXP-KRB5-RC2-CBC-MD5",
     "DHE-DSS-CBC-SHA", "IDEA-CBC-SHA", "SSL3_CK_SCSV",
     "SSL3_CK_FALLBACK_SCSV">>

\* mutant: the loop stops one name early
cipher_init_short ==
    {RFC7540_names[i] : i \in 1..(Len(RFC7540_names) - 1)}

\* cipher_init: the hash of the names, each with the source "rfc7540"
cipher_init == {RFC7540_names[i] : i \in DOMAIN RFC7540_names}

\* the hash h2_h2_init has cipher_init build, the same ever after
BLCNames == cipher_init

\* h2_h2_init: the optional functions mod_ssl offers are retrieved
h2_h2_init(offered) ==
    [ssl_is_https |-> "ssl_is_https" \in offered,
     ssl_var_lookup |-> "ssl_var_lookup" \in offered]

\* apr_hash_get(BLCNames, cipher, APR_HASH_KEY_STRING): the source noted
\* for exactly this name, NULL when there is none
cipher_source(cipher) ==
    IF cipher \in BLCNames THEN "rfc7540" ELSE NULLPTR

\* return !!*psource
cipher_is_blacklisted(cipher) == cipher_source(cipher) # NULLPTR

\* mutant: every connection counts as encrypted
h2_h2_is_tls_always(o, cn) == TRUE

h2_h2_is_tls(o, cn) == o.ssl_is_https /\ cn.https

\* mutant: an unavailable value is passed over when require_all is set
CheckValInverted(available, bad, require_all) ==
    IF available THEN (IF bad THEN 0 ELSE 1)
    ELSE IF require_all # 0 THEN 1 ELSE 0

\* mutant: an unavailable value is refused whatever require_all
CheckValStrict(available, bad, require_all) ==
    IF available THEN (IF bad THEN 0 ELSE 1) ELSE 0

\* the if (val && *val) ... else if (require_all) ... of both checks:
\* 0 for "return 0", 1 for going on
CheckVal(available, bad, require_all) ==
    IF available THEN (IF bad THEN 0 ELSE 1)
    ELSE IF require_all # 0 THEN 0 ELSE 1

\* h2_is_security_compliant with what it does on the way: the variables it
\* looks up, in order, and the source the blacklist lookup gave
h2_is_security_compliant_run(o, cn, require_all) ==
    IF h2_h2_is_tls(o, cn) /\ cn.H2_CONF_COMPLIANCE > 0
    THEN IF ~o.ssl_var_lookup
         THEN [ret |-> 0, lookups |-> <<>>, source |-> NULLPTR]
         ELSE LET val == cn.SSL_PROTOCOL
                  cipher == cn.SSL_CIPHER
              IN
              IF CheckVal(~val.null /\ val.s # <<>>,
                          \/ strncmp(<<"T", "L", "S">>, val.s, 3) # 0
                          \/ strcmp(<<"T", "L", "S", "v", "1">>, val.s) = 0
                          \/ strcmp(<<"T", "L", "S", "v", "1", ".", "1">>,
                                    val.s) = 0,
                          require_all) = 0
              THEN [ret |-> 0, lookups |-> <<"SSL_PROTOCOL">>,
                    source |-> NULLPTR]
              ELSE [ret |-> IF CheckVal(~cipher.null /\ cipher.s # "",
                                        cipher_is_blacklisted(cipher.s),
                                        require_all) = 0
                            THEN 0 ELSE 1,
                    lookups |-> <<"SSL_PROTOCOL", "SSL_CIPHER">>,
                    source |-> IF ~cipher.null /\ cipher.s # ""
                               THEN cipher_source(cipher.s) ELSE "(null)"]
    ELSE [ret |-> 1, lookups |-> <<>>, source |-> NULLPTR]

h2_is_security_compliant(o, cn, require_all) ==
    h2_is_security_compliant_run(o, cn, require_all).ret

\* h2_ctx_protocol_get, h2_ctx_protocol_set, h2_ctx_is_active: the
\* protocol the context notes, and whether one is noted
h2_ctx_protocol_get(cn) == cn.protocol
h2_ctx_protocol_set(cn, proto) == [cn EXCEPT !.protocol = proto]
h2_ctx_is_active(cn) == cn.protocol # NULLPTR
h2_ctx_is_task(cn) == cn.is_task
ap_get_protocol(cn) == cn.ap_protocol

\* what the handshake may select when the initiating read triggers it: h2
\* only for a connection that passes the lenient check
AlpnChoices(o, cn) ==
    {"none", "other"}
        \cup (IF h2_is_security_compliant(o, cn, 0) = 1 THEN {"h2"} ELSE {})

\* ap_get_brigade(..., AP_MODE_INIT, ...) as the connection sees it
InitRead_effect(cn, status, alpn) ==
    IF status # APR_SUCCESS THEN cn
    ELSE IF alpn = "h2" THEN h2_ctx_protocol_set(cn, "h2")
    ELSE IF alpn = "other" THEN [cn EXCEPT !.ap_protocol = "other"]
    ELSE cn

\* mutant: only the bytes read are compared
IsMagicPrefix(s, slen) ==
    memcmp(H2_MAGIC_TOKEN, s, IF slen < 24 THEN slen ELSE 24) = 0

\* (slen >= 24) && !memcmp(H2_MAGIC_TOKEN, s, 24)
IsMagic(s, slen) == slen >= 24 /\ memcmp(H2_MAGIC_TOKEN, s, 24) = 0

\* pending and left: what the connection's input held before the read of
\* 24 bytes and what it holds after it (empty when that read is not made)
NoSniff == [modes |-> <<>>, status |-> APR_SUCCESS, s |-> <<>>,
            flattened |-> FALSE, init |-> "none", pending |-> <<>>,
            left |-> <<>>]

\* mutant: the 24 bytes are read the ordinary way
SpeculativeModeReadBytes == "AP_MODE_READBYTES"

\* the mode of the read of 24 bytes
SpeculativeMode == "AP_MODE_SPECULATIVE"

\* the transport read of the input filters, on success: AP_MODE_INIT gives
\* no data, AP_MODE_SPECULATIVE gives up to readbytes bytes and leaves them
\* pending, AP_MODE_READBYTES gives them and takes them off the input
ap_get_brigade(pending, mode, readbytes) ==
    LET n == IF Len(pending) < readbytes THEN Len(pending) ELSE readbytes
    IN  CASE mode = "AP_MODE_INIT" ->
               [data |-> <<>>, pending |-> pending]
          [] mode = "AP_MODE_SPECULATIVE" ->
               [data |-> SubSeq(pending, 1, n), pending |-> pending]
          [] OTHER ->
               [data |-> SubSeq(pending, 1, n),
                pending |-> SubSeq(pending, n + 1, Len(pending))]

\* mutant: the 24 bytes are looked at whatever the initiating read answered
SniffNoStatusCheck(o, cn, init_status, alpn, spec_status, s) ==
    LET is_tls == h2_h2_is_tls(o, cn)
        modes == (IF is_tls THEN <<"AP_MODE_INIT">> ELSE <<>>)
                 \o <<SpeculativeMode>>
        cn1 == IF is_tls THEN InitRead_effect(cn, init_status, alpn) ELSE cn
        g == ap_get_brigade(s, SpeculativeMode, 24)
    IN  [conn |-> IF spec_status = APR_SUCCESS /\ IsMagic(g.data, Len(g.data))
                  THEN h2_ctx_protocol_set(cn1,
                                           IF is_tls THEN "h2" ELSE "h2c")
                  ELSE cn1,
         modes |-> modes, status |-> spec_status,
         s |-> IF spec_status = APR_SUCCESS THEN g.data ELSE <<>>,
         flattened |-> spec_status = APR_SUCCESS,
         init |-> IF is_tls THEN init_status ELSE "none",
         pending |-> s,
         left |-> IF spec_status = APR_SUCCESS THEN g.pending ELSE s]

\* the block under "sniff for the magic PRIamble"; s is what the
\* connection's input holds
Sniff(o, cn, init_status, alpn, spec_status, s) ==
    LET is_tls == h2_h2_is_tls(o, cn)
        status == IF is_tls THEN init_status ELSE APR_SUCCESS
        modes == IF is_tls THEN <<"AP_MODE_INIT">> ELSE <<>>
        cn1 == IF is_tls THEN InitRead_effect(cn, init_status, alpn) ELSE cn
        early == [conn |-> cn1, modes |-> modes, status |-> status,
                  s |-> <<>>, flattened |-> FALSE,
                  init |-> IF is_tls THEN init_status ELSE "none",
                  pending |-> <<>>, left |-> <<>>]
    IN
    IF status # APR_SUCCESS
    THEN early
    ELSE IF \/ h2_ctx_protocol_get(cn1) # NULLPTR
            \/ AP_PROTOCOL_HTTP1 # ap_get_protocol(cn1)
    THEN early
    ELSE IF ~(cn1.H2_CONF_DIRECT > 0)
    THEN early
    ELSE IF spec_status # APR_SUCCESS
    THEN [early EXCEPT !.modes = @ \o <<SpeculativeMode>>,
                       !.status = spec_status,
                       !.pending = s, !.left = s]
    ELSE LET g == ap_get_brigade(s, SpeculativeMode, 24)
         IN  [early EXCEPT
                 !.conn = IF IsMagic(g.data, Len(g.data))
                          THEN h2_ctx_protocol_set(
                                   cn1, IF is_tls THEN "h2" ELSE "h2c")
                          ELSE cn1,
                 !.modes = @ \o <<SpeculativeMode>>,
                 !.status = spec_status,
                 !.s = g.data,
                 !.flattened = TRUE,
                 !.pending = s,
                 !.left = g.pending]

\* what is noted of the sniff of a call
SniffOf(r) ==
    [modes |-> r.modes, status |-> r.status, s |-> r.s,
     flattened |-> r.flattened, init |-> r.init, pending |-> r.pending,
     left |-> r.left]

\* mutant: a stream pseudo connection is treated like any other
h2_h2_process_conn_any(o, cn, init_status, alpn, spec_status, s) ==
    LET r == IF /\ h2_ctx_protocol_get(cn) = NULLPTR
                /\ AP_PROTOCOL_HTTP1 = ap_get_protocol(cn)
             THEN Sniff(o, cn, init_status, alpn, spec_status, s)
             ELSE [conn |-> cn] @@ NoSniff
    IN [conn |-> r.conn,
        ret |-> IF h2_ctx_is_active(r.conn)
                THEN "h2_conn_main" ELSE DECLINED,
        sniff |-> SniffOf(r)]

h2_h2_process_conn(o, cn, init_status, alpn, spec_status, s) ==
    IF h2_ctx_is_task(cn)
    THEN [conn |-> cn, ret |-> DECLINED, sniff |-> NoSniff]
    ELSE LET r == IF /\ h2_ctx_protocol_get(cn) = NULLPTR
                     /\ AP_PROTOCOL_HTTP1 = ap_get_protocol(cn)
                  THEN Sniff(o, cn, init_status, alpn, spec_status, s)
                  ELSE [conn |-> cn] @@ NoSniff
         IN [conn |-> r.conn,
             ret |-> IF h2_ctx_is_active(r.conn)
                     THEN "h2_conn_main" ELSE DECLINED,
             sniff |-> SniffOf(r)]

\* ---- what is tried
Mutated(i) == [H2_MAGIC_TOKEN EXCEPT ![i] = (@ + 1) % 256]

\* what the connection's input may hold when it is looked at: the preface,
\* the preface with one byte changed, or fewer bytes of it
SniffInputs ==
    {H2_MAGIC_TOKEN}
        \cup {Mutated(i) : i \in 1..24}
        \cup {SubSeq(H2_MAGIC_TOKEN, 1, n) : n \in 0..23}
        \* more than 24 bytes pending: the preface and the start of a
        \* frame, a changed preface and more
        \cup {H2_MAGIC_TOKEN \o <<0, 0, 18>>, Mutated(24) \o <<0, 0, 18>>}

Versions ==
    {NullStr, Str(<<>>), Str(<<"S", "S", "L", "v", "3">>),
     Str(<<"T", "L", "S", "v", "1">>),
     Str(<<"T", "L", "S", "v", "1", ".", "1">>),
     Str(<<"T", "L", "S", "v", "1", ".", "2">>)}

Ciphers ==
    {NullName, Name(""), Name("NULL-MD5"),
     Name("ECDHE-RSA-AES128-GCM-SHA256")}

Conns ==
    [https : BOOLEAN, SSL_PROTOCOL : Versions, SSL_CIPHER : Ciphers,
     is_task : BOOLEAN, protocol : {NULLPTR, "h2"},
     ap_protocol : {AP_PROTOCOL_HTTP1, "other"},
     H2_CONF_COMPLIANCE : {0, 1}, H2_CONF_DIRECT : {0, 1}]

NoResult == [ret |-> "none", sniff |-> NoSniff, is_tls |-> FALSE,
             before |-> NULLPTR]

NoGate == [require_all |-> 0, ret |-> -1, lookups |-> <<>>,
           source |-> NULLPTR]

CnInit ==
    \* mod_ssl is loaded and offers its functions, or it is not
    /\ \E offered \in {{}, {"ssl_is_https", "ssl_var_lookup"}} :
          opt = h2_h2_init(offered)
    /\ conn \in Conns
    \* without mod_ssl no connection is https and nothing is known of TLS
    /\ ~opt.ssl_is_https => ~conn.https
    /\ ~conn.https => conn.SSL_PROTOCOL = NullStr /\ conn.SSL_CIPHER = NullName
    \* a protocol selected earlier was selected by the negotiation
    /\ conn.protocol = "h2" => "h2" \in AlpnChoices(opt, conn)
    /\ conn.protocol = "h2" => conn.ap_protocol = AP_PROTOCOL_HTTP1
    /\ pres = NoResult
    /\ gate = NoGate

\* the other parts see one plain connection
CnNone ==
    /\ opt = h2_h2_init({})
    /\ conn = [https |-> FALSE, SSL_PROTOCOL |-> NullStr,
               SSL_CIPHER |-> NullName, is_task |-> FALSE,
               protocol |-> NULLPTR, ap_protocol |-> AP_PROTOCOL_HTTP1,
               H2_CONF_COMPLIANCE |-> 1, H2_CONF_DIRECT |-> 0]
    /\ pres = NoResult
    /\ gate = NoGate

ProcessConn ==
    /\ pres.ret = "none"
    /\ \E init_status \in {APR_SUCCESS, APR_EOF},
          alpn \in AlpnChoices(opt, conn),
          spec_status \in {APR_SUCCESS, APR_EOF},
          s \in SniffInputs :
          LET r == h2_h2_process_conn(opt, conn, init_status, alpn,
                                      spec_status, s)
          IN /\ conn' = r.conn
             /\ pres' = [ret |-> r.ret, sniff |-> r.sniff,
                         is_tls |-> h2_h2_is_tls(opt, conn),
                         before |-> conn.protocol]
    /\ UNCHANGED <<opt, gate>>
    /\ UNCHANGED <<iovars, rdvars, rcvars>>

CheckCompliant ==
    /\ \E require_all \in {0, 1} :
          LET r == h2_is_security_compliant_run(opt, conn, require_all)
          IN gate' = [require_all |-> require_all,
                      ret |-> h2_is_security_compliant(opt, conn, require_all),
                      lookups |-> r.lookups, source |-> r.source]
    /\ UNCHANGED <<opt, conn, pres>>
    /\ UNCHANGED <<iovars, rdvars, rcvars>>

CnNext == ProcessConn \/ CheckCompliant

\* the channel part when another part is looked at: a fresh TLS channel
IOIdle == IOInit /\ io.buffer_output

InitIO == IOInit /\ RdInit /\ RcNone /\ CnNone

SpecIO == InitIO /\ [][IONext]_vars

InitRead == RdInit /\ IOIdle /\ RcNone /\ CnNone

SpecRead == InitRead /\ [][RdNext]_vars

InitReclaim == RcInit /\ IOIdle /\ RdInit /\ CnNone

SpecReclaim == InitReclaim /\ [][RcNext]_vars

InitExtras == RcInit /\ IOIdle /\ RdInit /\ CnNone

InitPod == RcNone /\ IOIdle /\ RdInit /\ CnNone

InitStatus == RcNone /\ IOIdle /\ RdInit /\ CnNone

SpecStatus == InitStatus /\ [][CsNext]_vars

SpecPod == InitPod /\ [][PdNext]_vars

SpecExtras == InitExtras /\ [][ExNext]_vars

InitConn == CnInit /\ IOIdle /\ RdInit /\ RcNone

SpecConn == InitConn /\ [][CnNext]_vars

\* h2_is_security_compliant as a function of its inputs: what mod_ssl
\* offers, what ssl_is_https answers for the connection, the compliance
\* setting, and what ssl_var_lookup answers for SSL_PROTOCOL and SSL_CIPHER
\* were it asked
GateVersions ==
    Versions \cup
    {Str(<<"T">>), Str(<<"T", "L">>), Str(<<"T", "L", "S">>),
     Str(<<"T", "L", "S", "v", "1", ".">>),
     Str(<<"T", "L", "S", "v", "1", ".", "3">>),
     Str(<<"T", "L", "S", "v", "1", ".", "1", "0">>),
     Str(<<"T", "L", "S", "v", "2">>),
     Str(<<"t", "l", "s", "v", "1", ".", "2">>),
     Str(<<"X", "T", "L", "S", "v", "1", ".", "2">>),
     Str(<<"D", "T", "L", "S", "v", "1", ".", "2">>)}

\* names that differ from a listed name in case, by a missing or an added
\* character
NearMisses ==
    {"null-md5", "NULL-MD", "XNULL-MD5", "NULL-MD5 ", " NULL-MD5",
     "NULL_MD5", "SSL3_CK_FALLBACK_SCS", "ssl3_ck_fallback_scsv"}

GateCiphers ==
    Ciphers
    \cup {Name(RFC7540_names[i]) : i \in DOMAIN RFC7540_names}
    \cup {Name(n) : n \in NearMisses}
    \cup {Name("ECDHE-ECDSA-AES256-GCM-SHA384"),
          Name("ECDHE-RSA-CHACHA20-POLY1305")}

GateConns ==
    [https : BOOLEAN, SSL_PROTOCOL : GateVersions, SSL_CIPHER : GateCiphers,
     is_task : {FALSE}, protocol : {NULLPTR},
     ap_protocol : {AP_PROTOCOL_HTTP1},
     H2_CONF_COMPLIANCE : {0, 1}, H2_CONF_DIRECT : {0}]

GateInit ==
    /\ \E offered \in {{}, {"ssl_is_https", "ssl_var_lookup"}} :
          opt = h2_h2_init(offered)
    /\ conn \in GateConns
    /\ pres = NoResult
    /\ gate = NoGate

GateNext == CheckCompliant

InitGate == GateInit /\ IOIdle /\ RdInit /\ RcNone

SpecGate == InitGate /\ [][GateNext]_vars

(***************************************************************************)
(* Properties of h2_conn_io_read                                           *)
(***************************************************************************)
\* C2: when on_read_cb is handed a span of L bytes and answers success with
\* consumed = k <= L, the staged input afterwards is what it was without
\* the first k of those bytes: for k < L it begins with a bucket of exactly
\* the L-k bytes left.  So, as long as the consumer reports no error, every
\* span handed over begins at the first byte not yet consumed and the
\* staged bytes are exactly the delivered bytes not yet consumed.
C2_SplitRead ==
    [][ /\ (/\ rpc \in {"loop1", "loop2"} /\ LoopCond
            /\ Head(input).type = "data" /\ Head(input).len > 0
            /\ hand'.status = APR_SUCCESS)
           => /\ Staged(input') = RDrop(Staged(input), hand'.consumed)
              /\ hand'.consumed < hand'.len
                    => input'[1] = [type |-> "data",
                                    lo |-> hand'.lo + hand'.consumed,
                                    len |-> hand'.len - hand'.consumed]
              /\ ~cbfail => hand'.lo = ctotal
        /\ ~cbfail' =>
              Staged(input') = RNorm(<< <<ctotal', delivered' - ctotal'>> >>)
      ]_vars

\* a call that began with staged input hands over the two bytes an earlier
\* call left of a span of three
C2_Witness ==
    /\ rpc = "loop1" /\ last = "hand" /\ ~cbfail
    /\ hand.lo = 1 /\ hand.len = 2 /\ delivered = 3

(***************************************************************************)
(* Properties of the channel                                               *)
(***************************************************************************)
Stream(n) == IF n = 0 THEN <<>> ELSE << <<0, n>> >>

\* C1: on a buffered channel, after writes followed by a flush with every
\* transport pass successful, the bytes the transport got, in order, are
\* exactly the bytes given to write, in order.
C1_Lossless ==
    (io.buffer_output /\ nfail = 0 /\ lastcall = "flush")
        => sent = Stream(given)

\* a lossless run in which write_size took both values and went back
C1_Witness ==
    /\ io.buffer_output /\ nfail = 0 /\ lastcall = "flush"
    /\ given > 2 * WRITE_SIZE_THRESHOLD
    /\ ngrow >= 1 /\ nreset >= 1
    /\ sent = Stream(given)

\* C7: write_size is always one of 1300 and 16384.
C7_WriteSizeRange ==
    /\ io.write_size \in {WRITE_SIZE_INITIAL, WRITE_SIZE_MAX}
    /\ \A i \in DOMAIN ev :
          ev[i].ws_after \in {WRITE_SIZE_INITIAL, WRITE_SIZE_MAX}

C7_Witness == io.write_size = WRITE_SIZE_MAX /\ nreset >= 1

\* C8: write_size goes down only in a tuning of bucketeer_buffer that found
\* at least one second passed since last_write, and that tuning sets
\* bytes_written to 0.
C8_DecreaseOnlyByIdleReset ==
    [][ /\ io'.write_size < io.write_size
            => \E i \in DOMAIN ev' : ev'[i].ws_after < ev'[i].ws_before
        /\ \A i \in DOMAIN ev' :
              ev'[i].ws_after < ev'[i].ws_before
                  => /\ ev'[i].idle >= WRITE_SIZE_IDLE_USEC
                     /\ ev'[i].bw_after = 0
                     /\ ev'[i].ws_after = WRITE_SIZE_INITIAL ]_vars

C8_Witness ==
    /\ io.write_size = WRITE_SIZE_INITIAL
    /\ \E i \in DOMAIN ev : /\ ev[i].ws_before = WRITE_SIZE_MAX
                             /\ ev[i].ws_after = WRITE_SIZE_INITIAL
                             /\ ev[i].bw_before > 0

\* C9: write_size goes up only in a tuning that found at least 1 MiB
\* accepted by the transport since the last idle reset (or since the
\* channel was made); a tuning that resets does not grow.
C9_GrowOnlyAfterThreshold ==
    [][ /\ io'.write_size > io.write_size
            => \E i \in DOMAIN ev' : ev'[i].ws_after > ev'[i].ws_before
        /\ \A i \in DOMAIN ev' :
              /\ ev'[i].ws_after > ev'[i].ws_before
                    => ev'[i].since >= WRITE_SIZE_THRESHOLD
              /\ (ev'[i].ws_before > WRITE_SIZE_INITIAL
                    /\ ev'[i].idle >= WRITE_SIZE_IDLE_USEC)
                    => ev'[i].ws_after = WRITE_SIZE_INITIAL ]_vars

\* grown, reset, and grown again after a further 1 MiB
C9_Witness ==
    /\ nreset >= 1 /\ ngrow >= 2
    /\ \E i \in DOMAIN ev : /\ ev[i].ws_after > ev[i].ws_before
                             /\ ev[i].since >= WRITE_SIZE_THRESHOLD
                             /\ RLen(sent) >= 2 * WRITE_SIZE_THRESHOLD

(***************************************************************************)
(* Properties of ap_reclaim_child_processes                                *)
(***************************************************************************)
\* every process the supervisor knew of when the run began is still running
NoneExited == \A p \in known0 : proc[p] = "running"

\* the action of the last entry of the table whose time has come
ActionAt(elapsed) ==
    LET due == {i \in 0..5 : action_table[i].action_time <= elapsed}
        i == CHOOSE d \in due : \A e \in due : e <= d
    IN action_table[i].action

\* C3 as the specification states it: for any number of workers that never
\* exit, 0 included, reclaim returns, its last poll applied give-up, and it
\* returns within the ten seconds of the timeline plus one poll interval
\* of at most a second.
C3_AsStated ==
    (rc.pc = "returned" /\ NoneExited)
        => /\ plog.action = GIVEUP
           /\ plog.elapsed <= apr_time_from_sec(10) + apr_time_from_sec(1)

\* C3: reclaim makes at most 3 + 10 polls.  With at least one worker and
\* none that exits, it returns only from a poll that applied give-up, and
\* when every sleep took the time asked for no poll is later than ten
\* seconds plus one poll interval of a second.  With no worker at all it
\* returns from its first poll, which applies no give-up.
C3_ReclaimTerminates ==
    /\ rc.polls <= 3 + 10
    /\ (plog.n > 0 /\ plog.exact)
          => plog.elapsed <= apr_time_from_sec(10) + apr_time_from_sec(1)
    /\ (rc.pc = "returned" /\ NoneExited /\ known0 # {})
          => plog.action = GIVEUP
    /\ (rc.pc = "polling" /\ known0 = {}) => rc.polls = 0
    /\ (rc.pc = "returned" /\ known0 = {})
          => plog.n = 1 /\ plog.action # GIVEUP

\* a worker in the scoreboard and an extra one, neither exits: reclaim
\* returns from its thirteenth poll, the one that gives up
C3_Witness ==
    /\ rc.pc = "returned" /\ NoneExited
    /\ known0 = {1, 2} /\ sb[1] = 1 /\ extras = <<2>>
    /\ plog.action = GIVEUP /\ plog.exact /\ plog.n = 3 + 10
    /\ plog.not_dead_yet = 2

\* C4 as the specification states it: the action of a poll is that of the
\* last entry of the timeline whose threshold is at most the elapsed time.
C4_AsStated == plog.n > 0 => plog.action = ActionAt(plog.elapsed)

\* C4: the action of a poll is that of the first entry of the timeline not
\* applied by an earlier poll of the run, when the threshold of that entry
\* is at most the elapsed time, and none otherwise.  So no entry is applied
\* before its threshold, none twice, and below three seconds nothing is
\* done.
C4_PollAction ==
    plog.n > 0 =>
        /\ plog.next_before = 1 + plog.applied
        /\ plog.next_before \in 1..5
        /\ plog.action =
              (IF action_table[plog.next_before].action_time <= plog.elapsed
               THEN action_table[plog.next_before].action
               ELSE DO_NOTHING)
        /\ plog.action # DO_NOTHING
              => /\ plog.cur = plog.next_before
                 /\ action_table[plog.cur].action_time <= plog.elapsed
        /\ plog.elapsed < apr_time_from_sec(3) => plog.action = DO_NOTHING

\* a poll after the first SIGTERM and before five seconds does nothing,
\* though the threshold of three seconds lies behind
C4_Witness ==
    /\ plog.n > 0 /\ plog.exact
    /\ plog.next_before = 2
    /\ plog.elapsed > apr_time_from_sec(3)
    /\ plog.elapsed < apr_time_from_sec(5)
    /\ plog.action = DO_NOTHING
    /\ plog.not_dead_yet > 0

(***************************************************************************)
(* Properties of h2_h2_process_conn and h2_is_security_compliant           *)
(***************************************************************************)
\* C5 as the specification states it: on an encrypted connection with the
\* compliance policy enabled, the connection is handed to h2_conn_main only
\* if h2_is_security_compliant holds for it, be it in its lenient form.
C5_AsStated ==
    (/\ pres.ret = "h2_conn_main"
     /\ pres.is_tls
     /\ conn.H2_CONF_COMPLIANCE > 0)
        => \E require_all \in {0, 1} :
              h2_is_security_compliant(opt, conn, require_all) = 1

\* C6: when the speculative read is made and succeeds, the connection is
\* taken over exactly when it gave 24 bytes equal to the preface, with
\* protocol h2 on an encrypted transport and h2c on a cleartext one; with
\* one byte changed or fewer than 24 bytes the result is DECLINED and no
\* protocol is noted.  The read is made on a connection that is no task, on
\* the default protocol also after the handshake, with direct mode enabled.
C6_SniffExact ==
    /\ pres.sniff.flattened
          => IF pres.sniff.s = H2_MAGIC_TOKEN
             THEN /\ pres.ret = "h2_conn_main"
                  /\ conn.protocol = (IF pres.is_tls THEN "h2" ELSE "h2c")
             ELSE /\ pres.ret = DECLINED
                  /\ conn.protocol = NULLPTR
    /\ (/\ pres.ret # "none"
        /\ ~conn.is_task
        /\ pres.before = NULLPTR
        /\ conn.ap_protocol = AP_PROTOCOL_HTTP1
        /\ conn.H2_CONF_DIRECT > 0
        /\ pres.sniff.status = APR_SUCCESS)
          => \/ pres.sniff.flattened
             \* or the handshake has selected h2
             \/ /\ pres.is_tls /\ conn.protocol = "h2"
                /\ pres.sniff.modes = <<"AP_MODE_INIT">>

\* the preface is found on an encrypted connection
C6_Witness ==
    /\ pres.sniff.flattened /\ pres.sniff.s = H2_MAGIC_TOKEN
    /\ pres.is_tls /\ conn.protocol = "h2" /\ pres.ret = "h2_conn_main"
    /\ pres.sniff.modes = <<"AP_MODE_INIT", "AP_MODE_SPECULATIVE">>

Unavailable(val) == val.null \/ Len(val.s) = 0
NoCipher(val) == val.null \/ val.s = ""

\* the protocol versions RFC 7540 admits: TLS, and later than TLSv1.1
VersionGood(val) ==
    /\ Len(val.s) >= 3
    /\ SubSeq(val.s, 1, 3) = <<"T", "L", "S">>
    /\ val.s \notin {<<"T", "L", "S", "v", "1">>,
                     <<"T", "L", "S", "v", "1", ".", "1">>}

\* the checked connection is encrypted and the compliance policy is on
Gated ==
    /\ gate.ret # -1
    /\ opt.ssl_is_https /\ conn.https
    /\ conn.H2_CONF_COMPLIANCE > 0

\* C10 as the specification states it: with require_all = false the answer
\* is true when the version or the cipher is unavailable, with require_all
\* = true it is false then.
C10_AsStated ==
    (Gated /\ (Unavailable(conn.SSL_PROTOCOL) \/ NoCipher(conn.SSL_CIPHER)))
        => gate.ret = (IF gate.require_all = 0 THEN 1 ELSE 0)

\* C10: on an encrypted connection with the compliance policy enabled,
\* h2_is_security_compliant with require_all = false passes over a version
\* or a cipher that is unavailable: it answers true exactly when the
\* variable lookup of mod_ssl is there, the version is unavailable or
\* admitted, and the cipher is unavailable or not blacklisted; so it
\* answers true when both are unavailable and the lookup is there.  With
\* require_all = true it answers false when the version or the cipher is
\* unavailable.
C10_Leniency ==
    Gated =>
        /\ gate.require_all = 0
              => (gate.ret = 1
                    <=> /\ opt.ssl_var_lookup
                        /\ \/ Unavailable(conn.SSL_PROTOCOL)
                           \/ VersionGood(conn.SSL_PROTOCOL)
                        /\ \/ NoCipher(conn.SSL_CIPHER)
                           \/ conn.SSL_CIPHER.s \notin
                                 {RFC7540_names[i] : i \in DOMAIN RFC7540_names})
        /\ (/\ gate.require_all = 1
            /\ \/ Unavailable(conn.SSL_PROTOCOL)
               \/ NoCipher(conn.SSL_CIPHER))
              => gate.ret = 0
        /\ gate.ret \in {0, 1}

\* the lenient check passes a connection of which mod_ssl tells the cipher
\* but no version
C10_Witness ==
    /\ Gated /\ gate.require_all = 0 /\ gate.ret = 1
    /\ opt.ssl_var_lookup
    /\ conn.SSL_PROTOCOL = NullStr
    /\ conn.SSL_CIPHER = Name("ECDHE-RSA-AES128-GCM-SHA256")

(***************************************************************************)
(* Properties of h2_is_security_compliant as a function                    *)
(***************************************************************************)
\* the name is one of the compiled list
Listed(name) == \E i \in 1..Len(RFC7540_names) : RFC7540_names[i] = name

\* the gate was evaluated with a version it admits and a cipher name
GatedWithCipher ==
    /\ Gated
    /\ ~conn.SSL_PROTOCOL.null /\ VersionGood(conn.SSL_PROTOCOL)
    /\ ~NoCipher(conn.SSL_CIPHER)

\* C11: after h2_h2_init, on an encrypted connection with the compliance
\* policy enabled and an admitted TLS version, h2_is_security_compliant
\* answers false for every cipher name of the compiled RFC 7540 list, the
\* blacklist lookup giving a source that is not NULL, and answers true for
\* every cipher name that is not literally one of the list.
C11_BlacklistMembership ==
    GatedWithCipher =>
        /\ Listed(conn.SSL_CIPHER.s)
              => gate.ret = 0 /\ gate.source = "rfc7540"
        /\ ~Listed(conn.SSL_CIPHER.s)
              => gate.ret = 1 /\ gate.source = NULLPTR

\* the last name of the list is refused, its source known
C11_Witness ==
    /\ GatedWithCipher
    /\ conn.SSL_CIPHER.s = RFC7540_names[Len(RFC7540_names)]
    /\ gate.ret = 0 /\ gate.source = "rfc7540"

\* C12: when the gate is evaluated and the version string is available,
\* the version check passes (the cipher is looked up next) exactly when the
\* string starts with "TLS" and is neither "TLSv1" nor "TLSv1.1"; for every
\* other available version the answer is false whatever require_all and
\* the cipher are, and the cipher is not looked up.
C12_VersionRule ==
    (Gated /\ opt.ssl_var_lookup /\ ~Unavailable(conn.SSL_PROTOCOL)) =>
        /\ VersionGood(conn.SSL_PROTOCOL)
              <=> gate.lookups = <<"SSL_PROTOCOL", "SSL_CIPHER">>
        /\ ~VersionGood(conn.SSL_PROTOCOL)
              => gate.ret = 0 /\ gate.lookups = <<"SSL_PROTOCOL">>

\* "TLSv1.10" is admitted: it only begins like "TLSv1.1"
C12_Witness ==
    /\ Gated
    /\ conn.SSL_PROTOCOL = Str(<<"T", "L", "S", "v", "1", ".", "1", "0">>)
    /\ conn.SSL_CIPHER = Name("ECDHE-RSA-AES128-GCM-SHA256")
    /\ gate.ret = 1

\* C13: when the transport is not encrypted or the compliance policy is
\* not enabled, h2_is_security_compliant answers true for every version,
\* cipher and require_all, and looks up neither version nor cipher.
C13_Bypass ==
    (/\ gate.ret # -1
     /\ \/ ~(opt.ssl_is_https /\ conn.https)
        \/ conn.H2_CONF_COMPLIANCE = 0)
        => gate.ret = 1 /\ gate.lookups = <<>>

\* strict check of a clear-text connection for which the lookup would tell
\* an old version and a listed cipher
C13_Witness ==
    /\ gate.ret = 1 /\ gate.require_all = 1 /\ gate.lookups = <<>>
    /\ opt.ssl_is_https /\ opt.ssl_var_lookup /\ ~conn.https
    /\ conn.H2_CONF_COMPLIANCE = 1
    /\ conn.SSL_PROTOCOL = Str(<<"S", "S", "L", "v", "3">>)
    /\ conn.SSL_CIPHER = Name("NULL-MD5")

(***************************************************************************)
(* Properties of h2_conn_io_flush and of the output buffer                 *)
(***************************************************************************)
\* C14: a flush of a marked channel makes one pass to the filters; when
\* the pass succeeds the channel is not marked unflushed afterwards, when
\* it fails the channel is still marked and the status of the failed pass
\* is what the flush returns.
C14_FlushClearsOnSuccess ==
    (lastcall = "flush" /\ passes # <<>>) =>
        /\ Len(passes) = 1 /\ passes[1].flush
        /\ passes[1].ok => ~io.unflushed /\ rstatus = APR_SUCCESS
        /\ ~passes[1].ok => io.unflushed /\ rstatus = APR_ECONNRESET

\* a flush has failed after a write: the channel is still marked
C14_Witness ==
    /\ lastcall = "flush" /\ passes # <<>> /\ ~passes[1].ok
    /\ io.unflushed /\ rstatus = APR_ECONNRESET /\ nwrites > 0

\* C15: h2_conn_io_flush on a channel that is not marked unflushed returns
\* APR_SUCCESS, passes nothing to the filters, appends no flush bucket and
\* leaves buflen, write_size, bytes_written and last_write (the whole
\* struct) as they were.  (A step that ends in a state whose last call is
\* a flush, the clock standing still, is a Flush step.)
C15_FlushCleanIsNoop ==
    [][ (lastcall' = "flush" /\ now' = now /\ ~io.unflushed)
           => /\ rstatus' = APR_SUCCESS
              /\ passes' = <<>> /\ ev' = <<>>
              /\ io' = io
              /\ sent' = sent ]_vars

\* a flush that found the channel unmarked, bytes having gone out before
C15_Witness ==
    /\ lastcall = "flush" /\ passes = <<>> /\ ~io.unflushed
    /\ rstatus = APR_SUCCESS /\ sent # <<>>

\* the bytes accepted by write that are staged in the buffer or the brigade
Pending == io.buflen + BrigadeLength(io.output)

\* C16 as the specification states it: the channel is marked unflushed if
\* and only if bytes accepted by write are pending.
C16_AsStated == io.unflushed <=> Pending > 0

\* C16: the channel is marked unflushed if and only if the last call on it
\* was a write or a flush that failed, that is, a write was called since
\* the last successful flush; it is marked whenever bytes accepted by
\* write are staged in the buffer or the brigade, and it can be marked
\* with nothing staged.
C16_DirtySinceWrite ==
    /\ io.unflushed <=> \/ lastcall = "write"
                        \/ lastcall = "flush" /\ rstatus # APR_SUCCESS
    /\ Pending > 0 => io.unflushed

\* marked with nothing staged: the bytes of a large write on a channel
\* that does not buffer went to the filters at once, all of them
C16_Witness ==
    /\ lastcall = "write" /\ rstatus = APR_SUCCESS /\ ~io.buffer_output
    /\ io.unflushed /\ Pending = 0
    /\ sent = Stream(given) /\ given > 0

\* C17: 0 <= buflen <= bufsize, bufsize being 65536 on a channel that
\* buffers (TLS) and 0 on one that does not, where buflen stays 0; the
\* buffer is bufsize bytes long in every state: no write has copied past
\* its end.
C17_BuflenInBounds ==
    /\ 0 <= io.buflen /\ io.buflen <= io.bufsize
    /\ io.bufsize = (IF io.buffer_output THEN WRITE_BUFFER_SIZE ELSE 0)
    /\ RLen(io.buffer) = io.bufsize
    /\ ~io.buffer_output => io.buflen = 0 /\ io.buffer = <<>>

\* a write larger than the buffer has left the buffer exactly full
C17_Witness ==
    /\ lastcall = "write" /\ io.buffer_output
    /\ io.buflen = WRITE_BUFFER_SIZE /\ passes # <<>>

\* the sum of the lengths of the buckets of a pass
RECURSIVE LensSum(_)
LensSum(lens) ==
    IF lens = <<>> THEN 0 ELSE Head(lens)[1] * Head(lens)[2] + LensSum(Tail(lens))

\* C18: bucketeer_buffer makes of n staged bytes floor(n / write_size)
\* buckets of exactly write_size bytes and then, when n mod write_size is
\* not 0, one bucket of n mod write_size bytes, write_size being the value
\* after the tuning at its head: the buckets hold the staged bytes in
\* order, none is empty or longer than write_size, their lengths sum to n,
\* and buflen is 0 when the flush returns.
C18_ChunkPartition ==
    io.buffer_output =>
        /\ Len(ev) <= Len(passes)
        /\ \A i \in 1..Len(ev) :
              LET n == ev[i].remaining
                  ws == ev[i].ws_after
                  lens == passes[i].lens
              IN  /\ lens = (IF n \div ws > 0
                             THEN << <<ws, n \div ws>> >> ELSE <<>>)
                            \o (IF n % ws > 0
                                THEN << <<n % ws, 1>> >> ELSE <<>>)
                  /\ \A k \in 1..Len(lens) :
                        lens[k][1] > 0 /\ lens[k][1] <= ws
                  /\ LensSum(lens) = n
                  /\ passes[i].data = ev[i].staged
                  /\ RLen(ev[i].staged) = n
        /\ lastcall = "flush" => io.buflen = 0

\* 2000 bytes staged at write size 1300 were flushed as 1300 then 700
C18_Witness ==
    /\ io.buffer_output /\ lastcall = "flush" /\ Len(ev) = 1
    /\ ev[1].remaining = 2000 /\ ev[1].ws_after = WRITE_SIZE_INITIAL
    /\ passes[1].lens = << <<1300, 1>>, <<700, 1>> >>
    /\ passes[1].data = << <<0, 2000>> >>
    /\ io.buflen = 0

(***************************************************************************)
(* Properties of the end of h2_conn_io_read                                *)
(***************************************************************************)
\* the consumer has signalled done in the pass that is being made
DoneInPass == rpc \in {"loop1", "loop2"} /\ rl.done

\* the call returns, the consumer is not called, io->input is not touched
\* and the transport is not asked
ReturnsAtOnce ==
    /\ rpc' = "idle"
    /\ hand' = hand /\ ctotal' = ctotal
    /\ input' = input
    /\ nreq' = nreq /\ delivered' = delivered

\* C19 as the specification states it: when the consumer signals done the
\* read returns at once, with the consumer's status.
C19_AsStated ==
    [][ DoneInPass => ReturnsAtOnce /\ rret' = hand.status ]_vars

\* C19: when the consumer signals done, h2_conn_io_read returns at once:
\* the consumer is not called again in that call, the buckets staged after
\* the one handed over stay staged as they are, and the transport is not
\* asked for more in that call.  The status returned is the consumer's,
\* except that a non-blocking read returns APR_EAGAIN when the consumer's
\* status is APR_SUCCESS and the consumer has taken no byte in the pass
\* over the staged input that it ended.
C19_DoneReturns ==
    [][ /\ DoneInPass
           => /\ ReturnsAtOnce
              /\ rret' = IF /\ rblock = APR_NONBLOCK_READ
                            /\ hand.status = APR_SUCCESS
                            /\ rl.readlen = 0
                         THEN APR_EAGAIN
                         ELSE hand.status
        /\ (rpc \in {"loop1", "loop2"} /\ ~rl.done /\ rl'.done)
           => /\ Len(input') >= Len(input) - 1
              /\ SubSeq(input', Len(input') - Len(input) + 2, Len(input'))
                    = Tail(input)
      ]_vars

\* the consumer took one of three bytes and signalled done: the call has
\* returned its status, two bytes and what follows stay staged
C19_Witness ==
    /\ rpc = "idle" /\ last = "exit" /\ rl.done
    /\ hand.done /\ hand.len = 3 /\ hand.consumed = 1
    /\ rret = hand.status
    /\ Len(input) >= 1 /\ input[1].len = 2 /\ nreq <= 1

\* the call has returned
Returned == rpc = "idle" /\ last \in {"exit", "fetch"}

\* neither the consumer nor the transport answered other than success in
\* the call that returned
NoError == last = "exit" /\ rl.status = APR_SUCCESS

\* C20: a non-blocking read in which the consumer took no byte at all and
\* neither consumer nor transport reported other than success returns
\* APR_EAGAIN; a blocking read returns APR_EAGAIN only when that is what
\* the transport answered, and with no byte taken and no error it returns
\* APR_SUCCESS.
C20_WouldBlock ==
    Returned =>
        /\ (rblock = APR_NONBLOCK_READ /\ ctotal = centry /\ NoError)
              => rret = APR_EAGAIN
        /\ (rblock = APR_BLOCK_READ /\ rret = APR_EAGAIN)
              => last = "fetch"
        /\ (rblock = APR_BLOCK_READ /\ ctotal = centry /\ NoError)
              => rret = APR_SUCCESS

\* a non-blocking read was handed a span, its consumer took nothing and
\* reported success: the call returned APR_EAGAIN
C20_Witness ==
    /\ Returned /\ NoError /\ rblock = APR_NONBLOCK_READ
    /\ ctotal = centry /\ last = "exit" /\ nreq = 1
    /\ hand.consumed = 0 /\ hand.len > 0 /\ hand.lo >= centry
    /\ rret = APR_EAGAIN

\* C21: when ap_get_brigade answers APR_EOF, APR_EAGAIN or an error,
\* h2_conn_io_read returns exactly that status, and on_read_cb is not
\* called for that answer: nothing is handed over or consumed, io->input is
\* as it was.
C21_TransportStatus ==
    [][ (rpc = "fetch" /\ tstat' # APR_SUCCESS)
           => /\ rpc' = "idle"
              /\ rret' = tstat'
              /\ hand' = hand /\ ctotal' = ctotal
              /\ input' = input /\ delivered' = delivered ]_vars

\* a call that consumed what was staged, asked the transport and was told
\* of the end of the input has returned APR_EOF
C21_Witness ==
    /\ rpc = "idle" /\ last = "fetch" /\ nreq = 1
    /\ tstat = APR_EOF /\ rret = APR_EOF
    /\ ctotal > centry

(***************************************************************************)
(* Properties of h2_h2_process_conn                                        *)
(***************************************************************************)
\* C22: after h2_h2_process_conn has looked at the first bytes and
\* declined because they are not the preface or are fewer than 24, the
\* input of the connection holds what it held before: the read of 24
\* bytes is speculative, no other read of data is made, and the bytes seen
\* are the first (at most 24) of those pending.
C22_SniffKeepsInput ==
    (pres.sniff.flattened /\ pres.ret = DECLINED)
        => /\ pres.sniff.left = pres.sniff.pending
           /\ \A i \in 1..Len(pres.sniff.modes) :
                 pres.sniff.modes[i]
                    \in {"AP_MODE_INIT", "AP_MODE_SPECULATIVE"}
           /\ Len(pres.sniff.s) <= 24
           /\ Len(pres.sniff.s) <= Len(pres.sniff.pending)
           /\ pres.sniff.s
                 = SubSeq(pres.sniff.pending, 1, Len(pres.sniff.s))

\* a changed preface followed by more bytes was looked at and declined:
\* all 27 bytes are still pending
C22_Witness ==
    /\ pres.sniff.flattened /\ pres.ret = DECLINED
    /\ pres.sniff.pending = Mutated(24) \o <<0, 0, 18>>
    /\ pres.sniff.left = pres.sniff.pending
    /\ Len(pres.sniff.s) = 24

\* one of the two reads of the sniff failed
SniffFailed == pres.ret # "none" /\ pres.sniff.status # APR_SUCCESS

C24_TaskDeclined ==
    (pres.ret # "none" /\ conn.is_task)
        => /\ pres.ret = DECLINED
           /\ pres.sniff = NoSniff
           /\ conn.protocol = pres.before

\* a pseudo connection on an encrypted transport with direct mode enabled
\* and no protocol noted is declined unread
C24_Witness ==
    /\ pres.ret = DECLINED /\ conn.is_task /\ pres.is_tls
    /\ conn.H2_CONF_DIRECT > 0 /\ conn.protocol = NULLPTR
    /\ conn.ap_protocol = AP_PROTOCOL_HTTP1
    /\ pres.sniff.modes = <<>>

(***************************************************************************)
(* Properties of the supervisor of child processes                         *)
(***************************************************************************)
\* C25: ap_reclaim_child_processes returns only from a poll in which no
\* child, of the scoreboard or extra, was found still running, or in which
\* the action applied was GIVEUP; as long as a poll counted a child
\* running and did not give up, another poll follows.  It makes at least
\* one poll, also with no child at all.
C25_ReclaimReturn ==
    /\ rc.pc = "returned"
          => /\ plog.n >= 1
             /\ plog.not_dead_yet = 0 \/ plog.action = GIVEUP
    /\ (rc.pc = "polling" /\ plog.n >= 1)
          => plog.not_dead_yet > 0 /\ plog.action # GIVEUP
    \* a child is counted exactly when it was found running
    /\ plog.not_dead_yet = 0 <=> plog.logged = {}
    /\ \A p \in plog.logged : p \in Pids /\ proc[p] # "gone"

\* two children, one exits after the first SIGTERM, the other later:
\* reclaim returns from a poll that found none running and gave nothing up
C25_Witness ==
    /\ rc.pc = "returned" /\ known0 = {1, 2}
    /\ plog.not_dead_yet = 0 /\ plog.action # GIVEUP
    /\ plog.n > 1 /\ plog.applied >= 1


\* C26: ap_relieve_child_processes makes one pass: reclaim_one_pid is
\* called once for each scoreboard slot in use, in slot order, then once for
\* each entry of the extras list, in list order; no signal is sent to any
\* process, running or not; and the call neither sleeps nor polls, so no
\* time has been counted and no iteration of the reclaim loop has run.
C26_RelieveOnePass ==
    rlv.called =>
        /\ rlv.checked = rlv.inuse \o rlv.extras
        /\ rlv.passes = 1
        /\ rlv.sigs = {}
        /\ \A p \in rlv.reaped : proc[p] = "gone"
        /\ rc.polls = 0 /\ rc.elapsed = 0 /\ rc.waittime = 0
        /\ plog = NoPoll

\* a pass over a worker still running and an extra process that has ended:
\* the first is left alone, the second is reaped
C26_Witness ==
    /\ rlv.called
    /\ rlv.inuse = <<1>> /\ rlv.extras = <<2>>
    /\ rlv.checked = <<1, 2>>
    /\ proc[1] = "running"
    /\ rlv.reaped = {2}
    /\ rlv.sigs = {}


\* C27, as stated: whatever calls of ap_register_extra_mpm_process,
\* ap_unregister_extra_mpm_process and ap_relieve_child_processes were made,
\* no two entries of the extras list hold the same pid.
C27_AsStated ==
    \A i, j \in DOMAIN extras : i # j => extras[i] # extras[j]

\* how often pid is in the list, and the list without it
Holders(list, pid) == Cardinality({k \in DOMAIN list : list[k] = pid})
Without(list, k) == SubSeq(list, 1, k - 1) \o SubSeq(list, k + 1, Len(list))

\* C28: ap_unregister_extra_mpm_process with a pid that no entry holds
\* returns 0 and leaves the list as it was; with a pid that some entry holds
\* it returns 1 and the list afterwards is the list before with one entry of
\* that pid taken out, the others in their order; so after the call a pid
\* that one entry held is held by none, and a second call with it returns 0.
\* (The steps in which uret holds a pid afterwards are the calls and the
\* exits of child processes, which change proc.)
C28_Unregister ==
    [][ (uret'.pid >= 0 /\ proc' = proc) =>
          LET pid == uret'.pid IN
          /\ Holders(extras, pid) = 0 =>
                uret'.found = 0 /\ extras' = extras
          /\ Holders(extras, pid) > 0 =>
                /\ uret'.found = 1
                /\ \E k \in DOMAIN extras :
                      extras[k] = pid /\ extras' = Without(extras, k)
                /\ Holders(extras', pid) = Holders(extras, pid) - 1
          /\ Holders(extras, pid) = 1 =>
                ap_unregister_extra_mpm_process(extras', pid).found = 0 ]_vars

\* the call has just taken the one entry of its pid out of a list of three
\* whose other entries hold another pid
C28_Witness ==
    /\ uret = [pid |-> 1, found |-> 1]
    /\ extras = <<2, 2>>
    /\ rc.pc = "idle"


(***************************************************************************)
(* Properties of the pipe of death                                         *)
(***************************************************************************)
\* C29, as stated: every call of ap_mpm_pod_signal calls dummy_connection,
\* the calls whose write to the pipe failed included.
C29_AsStated == pcall.op = "signal" => pcall.tried = 1

\* C29: ap_mpm_pod_signal calls dummy_connection, once, exactly when the
\* write of the byte succeeded; a call whose write failed returns the status
\* of the write, makes no connection, sends nothing and leaves the pipe as
\* it was.
C29_SignalPairing ==
    pcall.op = "signal" =>
        /\ pcall.tried = (IF pcall.io = APR_SUCCESS THEN 1 ELSE 0)
        /\ pcall.io = APR_SUCCESS => pod.bytes = pcall.before + 1
        /\ pcall.io # APR_SUCCESS =>
              /\ pcall.rv = pcall.io
              /\ pcall.sent = 0
              /\ pod.bytes = pcall.before

\* a signal whose write timed out, on a pipe that holds a byte
C29_Witness ==
    /\ pcall.op = "signal"
    /\ pcall.io = APR_TIMEUP /\ pcall.rv = APR_TIMEUP
    /\ pcall.tried = 0
    /\ pod.bytes = 1

\* C30: ap_mpm_pod_check returns APR_SUCCESS when the read succeeded with
\* one byte, AP_NORESTART when it succeeded with none, and the status of
\* the read when that is not success; a check that returns APR_SUCCESS has
\* taken exactly one byte out of the pipe, any other check none, so the
\* bytes in the pipe are those written less one for each such check.
C30_CheckClassifies ==
    /\ pcall.op = "check" =>
          /\ (pcall.io = APR_SUCCESS /\ pcall.len = 1) =>
                pcall.rv = APR_SUCCESS
          /\ (pcall.io = APR_SUCCESS /\ pcall.len = 0) =>
                pcall.rv = AP_NORESTART
          /\ pcall.io # APR_SUCCESS => pcall.rv = pcall.io
          /\ pcall.rv = APR_SUCCESS =>
                pcall.before >= 1 /\ pod.bytes = pcall.before - 1
          /\ pcall.rv # APR_SUCCESS => pod.bytes = pcall.before
    /\ pod.bytes = pod.signals - pod.died

\* a check that said die with two bytes in the pipe, after an earlier one
C30_Witness ==
    /\ pcall.op = "check"
    /\ pcall.rv = APR_SUCCESS /\ pcall.len = 1
    /\ pcall.before = 2 /\ pod.bytes = 1
    /\ pod.signals = 3 /\ pod.died = 2


\* C31: ap_mpm_pod_killpg with num N calls dummy_connection one call after
\* the other, at most N times, and makes no call after one that returned a
\* status other than success: when the k-th is the first to return one,
\* exactly k calls are made, otherwise exactly N; the pipe holds the bytes
\* it held before.  (The status dummy_connection returns is the one of the
\* connect, or of what failed before it; a request that could not be sent
\* on a connected socket does not stop the loop.)
C31_KillpgStops ==
    pcall.op = "killpg" =>
        /\ pcall.tried <= pcall.len
        /\ pcall.tried = (IF pcall.ff = 0 THEN pcall.len ELSE pcall.ff)
        /\ pcall.sent <= pcall.tried
        /\ (pcall.rv # APR_SUCCESS) = (pcall.ff # 0)
        /\ pod.bytes = pcall.before
        /\ pod.bytes = pod.signals - pod.died

\* two connections asked for, the first one timed out, on a pipe that
\* holds a byte
C31_Witness ==
    /\ pcall.op = "killpg"
    /\ pcall.len = 2 /\ pcall.ff = 1
    /\ pcall.tried = 1 /\ pcall.rv = APR_TIMEUP
    /\ pod.bytes = 1


(***************************************************************************)
(* Properties of ap_process_child_status                                   *)
(***************************************************************************)
\* C32: ap_process_child_status returns APEXIT_CHILDSICK for a child that
\* exited with that code, APEXIT_CHILDFATAL for a child that exited with
\* that code, and 0 for every other end of a child: exit code 0, any other
\* exit code, and a death by any signal, with or without a core dump.
C32_ChildStatus ==
    cstat.called =>
        LET exited == "APR_PROC_EXIT" \in cstat.why IN
        /\ (exited /\ cstat.status = APEXIT_CHILDSICK) =>
              cstat.ret = APEXIT_CHILDSICK
        /\ (exited /\ cstat.status = APEXIT_CHILDFATAL) =>
              cstat.ret = APEXIT_CHILDFATAL
        /\ (~exited \/ cstat.status \notin
                         {APEXIT_CHILDSICK, APEXIT_CHILDFATAL}) =>
              cstat.ret = 0

\* a child killed by signal 15 with a core dump: the number is that of
\* APEXIT_CHILDFATAL, the answer is 0
C32_Witness ==
    /\ cstat.called
    /\ cstat.why = {"APR_PROC_SIGNAL", "APR_PROC_SIGNAL_CORE"}
    /\ cstat.status = APEXIT_CHILDFATAL
    /\ cstat.ret = 0


(***************************************************************************)
(* Properties of the polls of ap_reclaim_child_processes                   *)
(***************************************************************************)
\* the signal an action sends
SignalOf(action) ==
    CASE action = SEND_SIGTERM -> "SIGTERM"
      [] action = SEND_SIGKILL -> "SIGKILL"
      [] OTHER -> "none"

\* C33: in a poll of the reclaim loop a signal goes only to a process whose
\* apr_proc_wait(APR_NOWAIT) of that poll answered APR_CHILD_NOTDONE, and it
\* is the signal of the poll's action; a process found exited is reaped and
\* not signalled, a pid that is no child or is < 1 is not signalled, and
\* neither is counted in not_dead_yet; every process found still running
\* gets the signal of the action, if the action has one, and is still
\* running after the poll.
C33_SignalOnlyRunning ==
    plog.n >= 1 =>
        /\ \A e \in plog.sigs :
              /\ e[1] \in plog.logged
              /\ e[2] = SignalOf(plog.action)
        /\ \A p \in plog.logged :
              /\ p \in Pids
              /\ proc[p] # "gone"
              /\ p \notin plog.reaped
              /\ SignalOf(plog.action) # "none" =>
                    <<p, SignalOf(plog.action)>> \in plog.sigs
        /\ \A p \in plog.reaped :
              /\ proc[p] = "gone"
              /\ \A e \in plog.sigs : e[1] # p
        /\ plog.not_dead_yet >= Cardinality(plog.logged)
        /\ plog.not_dead_yet = 0 => plog.sigs = {}

\* a poll that applied SIGTERM: child 1 was running and got it, child 2 had
\* exited and was reaped
C33_Witness ==
    /\ plog.n >= 1
    /\ plog.action = SEND_SIGTERM
    /\ plog.sigs = {<<1, "SIGTERM">>}
    /\ plog.reaped = {2}
    /\ plog.logged = {1}


\* C34: in one run of ap_reclaim_child_processes the entries of the action
\* table are applied in the order of the table, each at most once and at
\* most one in a poll, and a poll that applies none does nothing; so the
\* poll that sends SIGKILL comes after three polls that applied the three
\* SIGTERM entries, a poll gives up only after one that applied SIGKILL, and
\* the index with which the table is read is at most that of the last
\* entry.  (plog.order holds the entries applied so far, the one of this
\* poll included; plog.applied counts those of the earlier polls.)
C34_EscalationOrder ==
    /\ plog.order = [k \in 1..Len(plog.order) |-> k]
    /\ Len(plog.order) <= 5
    /\ plog.n >= 1 =>
          /\ plog.next_before \in 1..5
          /\ plog.cur \in 0..5
          /\ Len(plog.order) - plog.applied \in {0, 1}
          /\ plog.cur = (IF Len(plog.order) > plog.applied
                         THEN Len(plog.order) ELSE 0)
          /\ plog.cur = 0 => plog.action = DO_NOTHING
          /\ rc.next_action = Len(plog.order) + 1
          /\ plog.action = SEND_SIGKILL =>
                /\ plog.order = <<1, 2, 3, 4>>
                /\ \A k \in 1..3 : action_table[k].action = SEND_SIGTERM
          /\ plog.action = GIVEUP =>
                /\ plog.order = <<1, 2, 3, 4, 5>>
                /\ action_table[4].action = SEND_SIGKILL

\* the first sleep of the run took five seconds longer than asked, so the
\* times of two entries lie behind at the first poll: it applies the first
\* SIGTERM only, the second poll the second
C34_Witness ==
    /\ plog.n = 2
    /\ plog.slept < apr_time_from_sec(1)
    /\ plog.elapsed > apr_time_from_sec(5)
    /\ plog.order = <<1, 2>>
    /\ plog.action = SEND_SIGTERM
    /\ plog.not_dead_yet > 0


\* the pids of the entries of the extras list
Listed_pids == {extras[k] : k \in DOMAIN extras}

\* C35, as stated: in every build, a process of the extras list that a pass
\* of ap_relieve_child_processes or a poll of ap_reclaim_child_processes
\* reaped is no longer in the list after that pass, and when reclaim has
\* returned with no process left alive the list holds no pid of a process
\* that was reaped.
C35_AsStated ==
    /\ rlv.called => rlv.reaped \cap Listed_pids = {}
    /\ plog.n >= 1 => plog.reaped \cap Listed_pids = {}
    /\ (rc.pc = "returned" /\ plog.not_dead_yet = 0) =>
          \A p \in Listed_pids \cap Pids : proc[p] # "gone"


(***************************************************************************)
(* Properties of the buffering of h2_conn_io_write                         *)
(***************************************************************************)
\* C36: h2_conn_io_write on a channel that buffers its output passes bytes
\* down the filters only when buflen = bufsize and bytes of buf are left to
\* be copied: every pass of the call carries exactly bufsize bytes and no
\* flush bucket, and was made with the buffer full; when all passes succeed
\* there are as many as full buffers had to go to stage the last byte, and
\* a byte is staged after the last.  A write whose bytes fit into
\* bufsize - buflen makes no pass and changes nothing of the channel but
\* the bytes of the buffer, buflen and the unflushed mark.  When a pass
\* fails it is the last of the call, its status is returned, and nothing
\* more is staged.  (A step that ends in a state whose last call is a
\* write, with one more write counted, is a Write step.)
C36_Coalescing ==
    [][ (lastcall' = "write" /\ nwrites' = nwrites + 1 /\ io.buffer_output)
           => LET length == given' - given
                  total == io.buflen + length
              IN
              /\ Len(ev') = Len(passes')
              /\ \A i \in DOMAIN passes' :
                    /\ ~passes'[i].flush
                    /\ LensSum(passes'[i].lens) = io.bufsize
                    /\ ev'[i].remaining = io.bufsize
                    /\ ~passes'[i].ok => i = Len(passes')
              /\ length <= io.bufsize - io.buflen =>
                    /\ passes' = <<>>
                    /\ rstatus' = APR_SUCCESS
                    /\ sent' = sent
                    /\ io' = [io EXCEPT !.buffer = io'.buffer,
                                        !.buflen = io.buflen + length,
                                        !.unflushed = TRUE]
              /\ rstatus' = APR_SUCCESS =>
                    /\ Len(passes') =
                          (IF total = 0 THEN 0
                           ELSE (total - 1) \div io.bufsize)
                    /\ io'.buflen = total - Len(passes') * io.bufsize
                    /\ passes' # <<>> => io'.buflen > 0
              /\ rstatus' # APR_SUCCESS =>
                    /\ passes' # <<>>
                    /\ ~passes'[Len(passes')].ok
                    /\ io'.buflen = 0 ]_vars

\* a write of sixteen buffers' worth onto 2000 staged bytes: sixteen full
\* buffers went out, 2000 bytes stay staged
C36_Witness ==
    /\ lastcall = "write" /\ io.buffer_output
    /\ rstatus = APR_SUCCESS
    /\ Len(passes) = 16
    /\ io.buflen = 2000


(***************************************************************************)
(* Properties of the order of h2_conn_io_read                              *)
(***************************************************************************)
\* C37: h2_conn_io_read calls ap_get_brigade only with io->input empty.  A
\* call that began with staged input goes on to the transport only from a
\* pass over it that left nothing staged, in which the consumer answered
\* success each time and never done, so that every byte staged had been
\* taken by the consumer; the transport is asked once in a call at most;
\* and the scoreboard status set with the request is
\* SERVER_BUSY_KEEPALIVE for a blocking read and SERVER_BUSY_READ for a
\* non-blocking one.
C37_StagedFirst ==
    [][ /\ (rpc = "loop1" /\ rpc' = "fetch")
           => /\ input = <<>>
              /\ rl.status = APR_SUCCESS /\ ~rl.done
              /\ ~cbfail => ctotal = delivered
        /\ (rpc = "fetch" /\ last' = "fetch")
           => /\ input = <<>>
              /\ nreq = 0
              /\ sbstatus' = (IF rblock = APR_BLOCK_READ
                              THEN "SERVER_BUSY_KEEPALIVE"
                              ELSE "SERVER_BUSY_READ")
        /\ sbstatus' # sbstatus => rpc = "fetch"
      ]_vars

\* a non-blocking call that began with staged input, saw the consumer take
\* all of it, and has asked the transport
C37_Witness ==
    /\ last = "fetch" /\ nreq = 1
    /\ rblock = APR_NONBLOCK_READ /\ sbstatus = "SERVER_BUSY_READ"
    /\ ctotal > centry /\ centry > 0
    /\ ~cbfail

\* what is staged: the buckets and the bytes in them
RECURSIVE InputSize(_)
InputSize(bb) ==
    IF bb = <<>> THEN 0 ELSE 1 + Head(bb).len + InputSize(Tail(bb))

\* C38, as stated: every round of the loop of h2_conn_io_bucket_read takes a
\* metadata bucket or at least one byte out of io->input, or is the last
\* round, whatever the consumer answers.
C38_AsStated ==
    [][ (rpc \in {"loop1", "loop2"} /\ LoopCond
         /\ last' \in {"hand", "meta", "empty"})
           => InputSize(input') < InputSize(input) \/ ~LoopCond' ]_vars


(***************************************************************************)
(* Properties of the two modes of h2_is_security_compliant                 *)
(***************************************************************************)
\* C39: for every connection, encrypted or not, with the compliance policy
\* enabled or not, with the variable lookup of mod_ssl there or not, and
\* every version and cipher, an unavailable one included: when
\* h2_is_security_compliant answers true with require_all = true it answers
\* true with require_all = false, and the two answers differ only when the
\* version or the cipher is unavailable.
C39_StrictImpliesLenient ==
    gate.ret # -1 =>
        LET strict == h2_is_security_compliant(opt, conn, 1)
            lenient == h2_is_security_compliant(opt, conn, 0)
        IN
        /\ gate.ret = (IF gate.require_all = 1 THEN strict ELSE lenient)
        /\ strict = 1 => lenient = 1
        /\ strict # lenient =>
              \/ Unavailable(conn.SSL_PROTOCOL)
              \/ NoCipher(conn.SSL_CIPHER)

\* the strict check has refused a connection with an admitted version and
\* no cipher name, which the lenient check passes
C39_Witness ==
    /\ Gated /\ gate.require_all = 1 /\ gate.ret = 0
    /\ opt.ssl_var_lookup
    /\ conn.SSL_PROTOCOL = Str(<<"T", "L", "S", "v", "1", ".", "2">>)
    /\ conn.SSL_CIPHER = NullName
    /\ h2_is_security_compliant(opt, conn, 0) = 1


(***************************************************************************)
(* Properties of the sleeps of ap_reclaim_child_processes                  *)
(***************************************************************************)
\* the time apr_sleep is asked for before poll n of a run
Backoff(n) ==
    CASE n = 1 -> 16384
      [] n = 2 -> 16384 * 4
      [] n = 3 -> 16384 * 4 * 4
      [] OTHER -> apr_time_from_sec(1)

\* C40: the time asked of apr_sleep before the first poll of a run is
\* 16384 microseconds, before each later poll four times that of the poll
\* before, but a second at most: the times asked never decrease, never
\* exceed a second, and are exactly a second from the fourth poll on.
\* (apr_sleep may take longer than asked; in the model one sleep of a run
\* does, by OverrunUsec.)
C40_Backoff ==
    /\ rc.pc = "polling" =>
          /\ rc.waittime = Backoff(rc.polls + 1)
          /\ rc.waittime <= apr_time_from_sec(1)
          /\ rc.polls >= 1 => rc.waittime >= Backoff(rc.polls)
          /\ rc.polls >= 3 => rc.waittime = apr_time_from_sec(1)
    /\ plog.n >= 1 =>
          /\ plog.n = rc.polls
          /\ plog.slept - Backoff(plog.n) \in {0, OverrunUsec}
          /\ plog.exact => plog.slept = Backoff(plog.n)
    /\ \A n \in 1..13 :
          /\ Backoff(n) <= Backoff(n + 1)
          /\ Backoff(n + 1) \in {4 * Backoff(n), apr_time_from_sec(1)}
          /\ Backoff(n + 1) <= 4 * Backoff(n)

\* the fifth poll of a run in which every sleep took the time asked: a
\* second was slept before it, and a second is asked before the sixth
C40_Witness ==
    /\ rc.pc = "polling" /\ plog.n = 5 /\ plog.exact
    /\ plog.slept = apr_time_from_sec(1)
    /\ rc.waittime = apr_time_from_sec(1)
    /\ plog.elapsed = 16384 + 65536 + 262144 + 2 * apr_time_from_sec(1)

=============================================================================
